---- MODULE Spec2Model ----
(***************************************************************************)
(* A model of the legged-loco skill tooling:                               *)
(*   - SkillRegistry (skills/base.py) with its Gymnasium side effect,      *)
(*   - the sequential curriculum of scripts/train_multiskill.py (main).    *)
(* The specifications are given over one set of variables:                 *)
(*   Spec          the run of train_multiskill.main on parsed arguments,   *)
(*                 with the registry holding the self-registered presets;  *)
(*   SpecRegistry  arbitrary sequences of register / get calls on a fresh  *)
(*                 registry;                                               *)
(*   SpecListing   arbitrary sequences of register / list /                *)
(*                 find_by_gym_id calls on a fresh registry;               *)
(*   SpecLibrary   export calls on a fresh SkillLibrary                    *)
(*                 (utils/skill_library.py), step by step.                 *)
(***************************************************************************)
EXTENDS Naturals, Integers, Sequences, FiniteSets, TLC

VARIABLES
    \* ---- SkillRegistry and the Gymnasium registry behind it ----
    _skills,          \* SkillRegistry._skills: insertion-ordered dict, as a sequence of specs
    gym_registry,     \* gym.envs.registry: function from the bound gym ids to the kwargs bound
    gym_on_duplicate, \* how the installed gym.register answers an id that is already bound
    last_call,        \* the last registry call made and how it ended (history)
    last_ok,          \* skill_id -> spec of the most recent register call that returned (history)
    first_registered, \* skill ids in the order of the first register call that took each (history)
    returned,         \* the object the latest list call returned, if any
    \* ---- train_multiskill.main ----
    args_cli,         \* the parsed command line
    pc,               \* position in main
    exc,              \* the exception in flight / surfaced to the caller ("none" if none)
    simulation_app,   \* "unlaunched", "running" or "closed"
    app_close_calls,  \* number of simulation_app.close() calls
    skill_specs,      \* the resolved stage specs
    robot_name,
    idx,              \* 1-based index of the current stage (enumerate's idx + 1)
    agent_cfg,        \* the current stage's agent_cfg: max_iterations
    log_dir,          \* the current stage's log directory
    env,              \* the current stage's task: "none", "open", "closed"
    runner,           \* the current stage's learner: exists, current_learning_iteration
    last_checkpoint,  \* warm-start source
    final,            \* final_runner / final_env_cfg / final_agent_cfg / final_log_dir
    files,            \* checkpoint files on disk: set of paths
    clock,            \* datetime.now(), in seconds
    env_cfg,          \* the current stage's env_cfg
    exported,         \* what main handed to SkillLibrary.export, in order
    events,           \* collaborator calls made so far, in order (history)
    \* ---- SkillLibrary ----
    fs,               \* the file system: the directories, and the files with their contents
    export,           \* the export call in progress: its arguments, locals and position
    export_log,       \* the export calls that ended, in order (history)
    utcnow            \* datetime.utcnow(), in seconds

regVars == <<_skills, gym_registry, gym_on_duplicate, last_call, last_ok,
             first_registered, returned>>
mainVars == <<args_cli, pc, exc, simulation_app, app_close_calls, skill_specs, robot_name,
              idx, agent_cfg, log_dir, env, runner, last_checkpoint, final, files,
              clock, env_cfg, exported, events>>
libVars == <<fs, export, export_log, utcnow>>
vars == <<_skills, gym_registry, gym_on_duplicate, last_call, last_ok,
          first_registered, returned, fs, export, export_log, utcnow,
          args_cli, pc, exc, simulation_app, app_close_calls, skill_specs, robot_name,
          idx, agent_cfg, log_dir, env, runner, last_checkpoint, final, files,
          clock, env_cfg, exported, events>>

None == "None"

\* Optional values (Python's None or a value), as sequences of length 0 or 1.
Nothing == <<>>
Some(x) == <<x>>
IsNone(o) == o = <<>>

(***************************************************************************)
(* skills/base.py                                                          *)
(***************************************************************************)

\* dataclass SkillSpec: the fields the registry and the curriculum read.
SkillSpec(skill_id, robot, gym_id, env_cfg_cls, runner_cfg_cls) ==
    [skill_id |-> skill_id, robot |-> robot, gym_id |-> gym_id,
     env_cfg_cls |-> env_cfg_cls, runner_cfg_cls |-> runner_cfg_cls]

\* `skill_id in self._skills`
Contains(skills, skill_id) == \E i \in DOMAIN skills : skills[i].skill_id = skill_id

\* `self._skills[skill_id]` for a key that is present
Lookup(skills, skill_id) ==
    skills[CHOOSE i \in DOMAIN skills : skills[i].skill_id = skill_id]

\* sorted(self._skills) / the keys of the dict, as a set
Keys(skills) == {skills[i].skill_id : i \in DOMAIN skills}

\* Mutant of DictSet: a replaced key moves to the end of the iteration order.
DictSet_MovesToEnd(skills, spec) ==
    Append(SelectSeq(skills, LAMBDA s : s.skill_id # spec.skill_id), spec)

\* `self._skills[spec.skill_id] = spec` on a Python dict: a present key keeps its
\* place in the iteration order, a new key goes last.
DictSet(skills, spec) ==
    IF Contains(skills, spec.skill_id)
    THEN [i \in DOMAIN skills |->
            IF skills[i].skill_id = spec.skill_id THEN spec ELSE skills[i]]
    ELSE Append(skills, spec)

\* The kwargs gym.register binds to the id.
GymKwargs(spec) ==
    [env_cfg_entry_point |-> spec.env_cfg_cls,
     rsl_rl_cfg_entry_point |-> spec.runner_cfg_cls]

\* Gymnasium refuses an id that does not match its id pattern.
Malformed(gym_id) == gym_id = "bad id"

\* gym.envs.registry.pop(gym_id): KeyError when the id is not bound.
GymPop(reg, gym_id) ==
    IF gym_id \in DOMAIN reg
    THEN [registry |-> [g \in (DOMAIN reg) \ {gym_id} |-> reg[g]], error |-> "none"]
    ELSE [registry |-> reg, error |-> "KeyError"]

\* gym.register(id=..., kwargs=...): binds the id, or raises gymnasium.error.Error.
\* An id already bound is overridden (with a warning) or refused with a message
\* saying that it exists, depending on the installed version (on_duplicate).
GymRegister(reg, gym_id, kwargs, on_duplicate) ==
    IF Malformed(gym_id)
    THEN [registry |-> reg, error |-> "malformed"]
    ELSE IF gym_id \in DOMAIN reg /\ on_duplicate = "raise"
    THEN [registry |-> reg, error |-> "exists"]
    ELSE [registry |-> [g \in (DOMAIN reg) \cup {gym_id} |->
                          IF g = gym_id THEN kwargs ELSE reg[g]],
          error |-> "none"]

\* Mutant of Reraised: every error of gym.register is re-raised.
Reraised_Always(error) == error # "none"

\* `"exists" not in str(exc).lower()`: the error is re-raised.
Reraised(error) == error # "none" /\ error # "exists"

\* One call on the Gymnasium registry and how it ended.
GymCall(op, gym_id, error) == [op |-> op, gym_id |-> gym_id, error |-> error]

\* Mutant of EnsureGymRegistration: force does not pop the id first.
EnsureGymRegistration_NoPop(reg, spec, force, on_duplicate) ==
    LET r == GymRegister(reg, spec.gym_id, GymKwargs(spec), on_duplicate)
    IN  [registry |-> r.registry,
         outcome |-> IF Reraised(r.error) THEN "GymRegistrationError" ELSE "ok",
         calls |-> <<GymCall("register", spec.gym_id, r.error)>>]

\* SkillRegistry._ensure_gym_registration: the gym registry after the call, how the
\* call ended, and the calls it made on the gym registry, in order.
EnsureGymRegistration(reg, spec, force, on_duplicate) ==
    LET p == GymPop(reg, spec.gym_id)
        popped == IF force THEN p.registry ELSE reg
        r == GymRegister(popped, spec.gym_id, GymKwargs(spec), on_duplicate)
    IN  [registry |-> r.registry,
         outcome |-> IF Reraised(r.error) THEN "GymRegistrationError" ELSE "ok",
         calls |-> (IF force THEN <<GymCall("pop", spec.gym_id, p.error)>> ELSE <<>>)
                   \o <<GymCall("register", spec.gym_id, r.error)>>]

\* Mutant of RegisterCall: the spec is stored before the duplicate check.
RegisterCall_StoreBeforeCheck(skills, reg, spec, force, register_gym, on_duplicate) ==
    LET stored == DictSet(skills, spec)
    IN  IF Contains(skills, spec.skill_id) /\ ~force
        THEN [skills |-> stored, gym |-> reg, outcome |-> "ValueError", gym_calls |-> <<>>]
        ELSE IF register_gym
             THEN LET e == EnsureGymRegistration(reg, spec, force, on_duplicate)
                  IN  [skills |-> stored, gym |-> e.registry, outcome |-> e.outcome,
                       gym_calls |-> e.calls]
             ELSE [skills |-> stored, gym |-> reg, outcome |-> "ok", gym_calls |-> <<>>]

\* SkillRegistry.register: the registry, the gym registry and the outcome after the call.
RegisterCall(skills, reg, spec, force, register_gym, on_duplicate) ==
    IF Contains(skills, spec.skill_id) /\ ~force
    THEN [skills |-> skills, gym |-> reg, outcome |-> "ValueError", gym_calls |-> <<>>]
    ELSE LET stored == DictSet(skills, spec)
         IN  IF register_gym
             THEN LET e == EnsureGymRegistration(reg, spec, force, on_duplicate)
                  IN  [skills |-> stored, gym |-> e.registry, outcome |-> e.outcome,
                       gym_calls |-> e.calls]
             ELSE [skills |-> stored, gym |-> reg, outcome |-> "ok", gym_calls |-> <<>>]

\* Mutant of GetCall: the error omits the id registered first.
GetCall_OmitsFirst(skills, skill_id) ==
    IF Contains(skills, skill_id)
    THEN [outcome |-> "ok", spec |-> Lookup(skills, skill_id), known |-> {}]
    ELSE [outcome |-> "KeyError", spec |-> None,
          known |-> {skills[i].skill_id : i \in (DOMAIN skills) \ {1}}]

\* SkillRegistry.get
GetCall(skills, skill_id) ==
    IF Contains(skills, skill_id)
    THEN [outcome |-> "ok", spec |-> Lookup(skills, skill_id), known |-> {}]
    ELSE [outcome |-> "KeyError", spec |-> None, known |-> Keys(skills)]

\* Mutant of FindByGymIdCall: the last stored spec with the gym id is returned.
FindByGymIdCall_Last(skills, gym_id) ==
    LET hits == {i \in DOMAIN skills : skills[i].gym_id = gym_id}
    IN  IF hits = {}
        THEN [outcome |-> "KeyError", spec |-> None]
        ELSE [outcome |-> "ok",
              spec |-> skills[CHOOSE i \in hits : \A j \in hits : j <= i]]

\* SkillRegistry.find_by_gym_id: the first spec, in the dict's order, with the gym id.
FindByGymIdCall(skills, gym_id) ==
    LET hits == {i \in DOMAIN skills : skills[i].gym_id = gym_id}
    IN  IF hits = {}
        THEN [outcome |-> "KeyError", spec |-> None]
        ELSE [outcome |-> "ok",
              spec |-> skills[CHOOSE i \in hits : \A j \in hits : i <= j]]

\* Mutant of ListCall: the live view of the dict's values is returned, not a copy.
ListCall_View(skills, robot) == [robot |-> robot, view |-> TRUE, items |-> <<>>]

\* SkillRegistry.list (over SkillRegistry.iter): a new list of the stored specs, in the
\* dict's order, that pass `robot is None or spec.robot == robot`.
ListCall(skills, robot) ==
    [robot |-> robot, view |-> FALSE,
     items |-> SelectSeq(skills, LAMBDA spec : robot = None \/ spec.robot = robot)]

\* What the holder of an object returned by list reads from it, the registry being
\* `skills`: a list holds its own items, a view shows the dict as it is now.
Contents(object, skills) ==
    IF object.view
    THEN SelectSeq(skills, LAMBDA spec : object.robot = None \/ spec.robot = object.robot)
    ELSE object.items

(***************************************************************************)
(* Registry calls on a fresh registry (SpecRegistry)                       *)
(***************************************************************************)

\* The specs the callers register: two skill ids, two well-formed gym ids and a
\* malformed one, two pairs of config classes.
SpecUniverse ==
    { SkillSpec("a", "h1",  "g1",     "EnvCfg1", "RunnerCfg1"),
      SkillSpec("a", "go2", "g2",     "EnvCfg2", "RunnerCfg2"),
      SkillSpec("a", "h1",  "g1",     "EnvCfg2", "RunnerCfg2"),
      SkillSpec("a", "h1",  "bad id", "EnvCfg1", "RunnerCfg1"),
      SkillSpec("b", "go2", "g1",     "EnvCfg2", "RunnerCfg2"),
      SkillSpec("b", "h1",  "g2",     "EnvCfg1", "RunnerCfg1"),
      SkillSpec("b", "go2", "bad id", "EnvCfg2", "RunnerCfg2") }

SkillIdUniverse == {"a", "b", "missing"}

\* The specs registered around list and find_by_gym_id calls: two skill ids, each for
\* either robot, two of them sharing a gym id, one with an id gym.register refuses.
ListingUniverse ==
    { SkillSpec("a", "h1",  "g1",     "EnvCfg1", "RunnerCfg1"),
      SkillSpec("a", "go2", "g1",     "EnvCfg1", "RunnerCfg1"),
      SkillSpec("b", "go2", "g2",     "EnvCfg2", "RunnerCfg2"),
      SkillSpec("b", "h1",  "g1",     "EnvCfg2", "RunnerCfg2"),
      SkillSpec("b", "go2", "bad id", "EnvCfg2", "RunnerCfg2") }

\* The gym ids looked up: one that two skills may share, one of one skill, one unused.
GymIdUniverse == {"g1", "g2", "g3"}

\* The robot filters passed to list: none, the two robots registered, one that is not.
RobotFilters == {None, "h1", "go2", "g1"}

NoCall == [op |-> "none"]

\* skill_registry.register(spec, force=force, register_gym=register_gym)
Register(spec, force, register_gym) ==
    LET r == RegisterCall(_skills, gym_registry, spec, force, register_gym, gym_on_duplicate)
    IN  /\ _skills' = r.skills
        /\ gym_registry' = r.gym
        /\ last_call' = [op |-> "register", spec |-> spec, force |-> force,
                         register_gym |-> register_gym, outcome |-> r.outcome,
                         gym_calls |-> r.gym_calls]
        /\ last_ok' = IF r.outcome = "ok"
                      THEN [k \in (DOMAIN last_ok) \cup {spec.skill_id} |->
                              IF k = spec.skill_id THEN spec ELSE last_ok[k]]
                      ELSE last_ok
        /\ first_registered' =
             IF r.outcome = "ValueError"
                \/ \E i \in DOMAIN first_registered : first_registered[i] = spec.skill_id
             THEN first_registered
             ELSE Append(first_registered, spec.skill_id)
        /\ UNCHANGED <<gym_on_duplicate, returned, mainVars, libVars>>

\* skill_registry.get(skill_id)
Get(skill_id) ==
    LET r == GetCall(_skills, skill_id)
    IN  /\ last_call' = [op |-> "get", skill_id |-> skill_id, outcome |-> r.outcome,
                         spec |-> r.spec, known |-> r.known]
        /\ UNCHANGED <<_skills, gym_registry, gym_on_duplicate, last_ok,
                       first_registered, returned, mainVars, libVars>>

\* skill_registry.find_by_gym_id(gym_id)
FindByGymId(gym_id) ==
    LET r == FindByGymIdCall(_skills, gym_id)
    IN  /\ last_call' = [op |-> "find_by_gym_id", gym_id |-> gym_id,
                         outcome |-> r.outcome, spec |-> r.spec]
        /\ UNCHANGED <<_skills, gym_registry, gym_on_duplicate, last_ok,
                       first_registered, returned, mainVars, libVars>>

\* skill_registry.list(robot=robot)
List(robot) ==
    /\ returned' = <<ListCall(_skills, robot)>>
    /\ last_call' = [op |-> "list", robot |-> robot]
    /\ UNCHANGED <<_skills, gym_registry, gym_on_duplicate, last_ok,
                   first_registered, mainVars, libVars>>

(***************************************************************************)
(* skills/__init__.py: the presets self-register at import                 *)
(***************************************************************************)

H1_FORWARD_WALK_SPEC ==
    SkillSpec("h1/velocity/walk_forward", "h1", "h1_skill_walk_forward",
              "H1ForwardWalkSkillEnvCfg", "H1ForwardWalkSkillRunnerCfg")
GO2_FORWARD_TROT_SPEC ==
    SkillSpec("go2/velocity/trot_forward", "go2", "go2_skill_trot_forward",
              "Go2ForwardTrotEnvCfg", "Go2ForwardTrotRunnerCfg")
GO2_TURN_LEFT_SPEC ==
    SkillSpec("go2/velocity/turn_left", "go2", "go2_skill_turn_left",
              "Go2TurnLeftEnvCfg", "Go2TurnLeftRunnerCfg")

\* h1_velocity is imported before go2_velocity; each calls register_skill(SPEC).
Presets == <<H1_FORWARD_WALK_SPEC, GO2_FORWARD_TROT_SPEC, GO2_TURN_LEFT_SPEC>>

RECURSIVE RegisterAll(_, _, _, _)
RegisterAll(specs, skills, reg, on_duplicate) ==
    IF specs = <<>>
    THEN [skills |-> skills, gym |-> reg]
    ELSE LET r == RegisterCall(skills, reg, Head(specs), FALSE, TRUE, on_duplicate)
         IN  RegisterAll(Tail(specs), r.skills, r.gym, on_duplicate)

(***************************************************************************)
(* scripts/train_multiskill.py                                             *)
(***************************************************************************)

\* Longest --skill list tried.
MaxStages == 3

\* --skill values: the preset ids and one id nobody registered.
SkillArgs == {"h1/velocity/walk_forward", "go2/velocity/trot_forward",
              "go2/velocity/turn_left", "no/such/skill"}

RECURSIVE SeqsUpTo(_, _)
SeqsUpTo(S, n) ==
    IF n = 0 THEN {<<>>}
    ELSE LET shorter == SeqsUpTo(S, n - 1)
         IN  shorter \cup {Append(q, x) : q \in shorter, x \in S}

\* build_arg_parser / parse_args: the arguments main reads.
ArgsSpace ==
    [skills : SeqsUpTo(SkillArgs, MaxStages),
     list_skills : BOOLEAN,
     max_iterations : {Nothing, Some(0), Some(5)},
     iterations_per_skill : {Nothing, Some(0), Some(3)},
     use_wandb : BOOLEAN,
     combined_skill_id : {Nothing, Some("custom/merged")}]

\* cli_args.parse_rsl_rl_cfg(spec.gym_id, args_cli): the runner config the gym id is
\* bound to supplies max_iterations and experiment_name (stand-in values, one per
\* robot family's base runner config).
FactoryMaxIterations(spec) == IF spec.robot = "h1" THEN 4 ELSE 2
ExperimentName(spec) == spec.runner_cfg_cls

\* Mutant of ResolveMaxIterations: the overrides are tested for truth, not for None,
\* so an override of 0 is ignored.
ResolveMaxIterations_Truthy(spec, args) ==
    LET from_factory == FactoryMaxIterations(spec)
        after_max == IF ~IsNone(args.max_iterations) /\ args.max_iterations[1] # 0
                     THEN args.max_iterations[1] ELSE from_factory
    IN  IF ~IsNone(args.iterations_per_skill) /\ args.iterations_per_skill[1] # 0
        THEN args.iterations_per_skill[1] ELSE after_max

\* lines 198-203: the stage's iteration budget.
ResolveMaxIterations(spec, args) ==
    LET from_factory == FactoryMaxIterations(spec)
        after_max == IF ~IsNone(args.max_iterations)
                     THEN args.max_iterations[1] ELSE from_factory
    IN  IF ~IsNone(args.iterations_per_skill)
        THEN args.iterations_per_skill[1] ELSE after_max

\* os.path.join(log_dir, f"model_{iteration}.pt")
CheckpointPath(dir, iteration) == [dir |-> dir, model |-> iteration]

\* lines 239-242: os.path.join(log_dir, "params", name), in the order written
ParamsFiles == <<"env.yaml", "agent.yaml", "env.pkl", "agent.pkl">>
ParamsPath(dir, name) == [dir |-> dir, params |-> name]

NoLogDir == [experiment_name |-> None, stamp |-> 0]
NoRunner == [exists |-> FALSE, current_learning_iteration |-> 0]
NoFinal == [runner |-> Nothing, env_cfg |-> Nothing, agent_cfg |-> Nothing,
            log_dir |-> Nothing]
NoAgentCfg == [max_iterations |-> 0]

Ev(op, arg) == [stage |-> idx, op |-> op, arg |-> arg]

\* An exception raised at this point of main travels to `handler`: the innermost
\* enclosing finally, or the caller.
RaiseTo(handler, e) == exc' = e /\ pc' = handler

\* line 132: AppLauncher(args_cli)
LaunchApp ==
    /\ pc = "start"
    /\ simulation_app' = "running"
    /\ pc' = "launched"
    /\ UNCHANGED <<regVars, libVars, args_cli, exc, app_close_calls, skill_specs, robot_name, idx,
                   agent_cfg, log_dir, env, runner, last_checkpoint, final, files, clock,
                   env_cfg, exported, events>>

\* lines 135-138: --list_skills
ListSkills ==
    /\ pc = "launched"
    /\ args_cli.list_skills
    /\ events' = Append(events, Ev("list_skills", Len(_skills)))
    /\ simulation_app' = "closed"
    /\ app_close_calls' = app_close_calls + 1
    /\ pc' = "exit"
    /\ UNCHANGED <<regVars, libVars, args_cli, exc, skill_specs, robot_name, idx,
                   agent_cfg, log_dir, env, runner, last_checkpoint, final, files, clock,
                   env_cfg, exported>>

\* lines 140-141: parser.error exits the process
RejectTooFewSkills ==
    /\ pc = "launched"
    /\ ~args_cli.list_skills
    /\ Len(args_cli.skills) < 2
    /\ RaiseTo("exit", "SystemExit")
    /\ UNCHANGED <<regVars, libVars, args_cli, simulation_app, app_close_calls, skill_specs,
                   robot_name, idx, agent_cfg, log_dir, env, runner, last_checkpoint,
                   final, files, clock, env_cfg, exported, events>>

\* Mutant of ResolveSkills: the number of --skill entries is not checked first.
ResolveSkills_NoMinimum ==
    /\ pc = "launched"
    /\ ~args_cli.list_skills
    /\ IF \A i \in DOMAIN args_cli.skills : GetCall(_skills, args_cli.skills[i]).outcome = "ok"
       THEN /\ skill_specs' = [i \in DOMAIN args_cli.skills |->
                                 GetCall(_skills, args_cli.skills[i]).spec]
            /\ pc' = "check_robots"
            /\ exc' = exc
       ELSE /\ RaiseTo("exit", "KeyError")
            /\ UNCHANGED skill_specs
    /\ UNCHANGED <<regVars, libVars, args_cli, simulation_app, app_close_calls,
                   robot_name, idx, agent_cfg, log_dir, env, runner, last_checkpoint,
                   final, files, clock, env_cfg, exported, events>>

\* line 174: skill_specs = [get_skill(skill_id) for skill_id in args_cli.skills]
ResolveSkills ==
    /\ pc = "launched"
    /\ ~args_cli.list_skills
    /\ Len(args_cli.skills) >= 2
    /\ IF \A i \in DOMAIN args_cli.skills : GetCall(_skills, args_cli.skills[i]).outcome = "ok"
       THEN /\ skill_specs' = [i \in DOMAIN args_cli.skills |->
                                 GetCall(_skills, args_cli.skills[i]).spec]
            /\ pc' = "check_robots"
            /\ exc' = exc
       ELSE /\ RaiseTo("exit", "KeyError")
            /\ UNCHANGED skill_specs
    /\ UNCHANGED <<regVars, libVars, args_cli, simulation_app, app_close_calls,
                   robot_name, idx, agent_cfg, log_dir, env, runner, last_checkpoint,
                   final, files, clock, env_cfg, exported, events>>

\* Mutant of CheckRobots: the robot families are not compared.
CheckRobots_NoCheck ==
    /\ pc = "check_robots"
    /\ robot_name' = skill_specs[1].robot
    /\ final' = NoFinal
    /\ last_checkpoint' = Nothing
    /\ idx' = 1
    /\ pc' = "for"
    /\ UNCHANGED <<regVars, libVars, args_cli, exc, simulation_app, app_close_calls, skill_specs,
                   agent_cfg, log_dir, env, runner, files, clock, env_cfg, exported,
                   events>>

\* lines 176-187: one robot family, then the loop's variables
CheckRobots ==
    /\ pc = "check_robots"
    /\ LET robots == {skill_specs[i].robot : i \in DOMAIN skill_specs}
       IN  IF Cardinality(robots) # 1
           THEN /\ RaiseTo("exit", "ValueError")
                /\ UNCHANGED <<robot_name, idx, final, last_checkpoint>>
           ELSE /\ robot_name' = CHOOSE r \in robots : TRUE
                /\ final' = NoFinal
                /\ last_checkpoint' = Nothing
                /\ idx' = 1
                /\ pc' = "for"
                /\ exc' = exc
    /\ UNCHANGED <<regVars, libVars, args_cli, simulation_app, app_close_calls, skill_specs,
                   agent_cfg, log_dir, env, runner, files, clock, env_cfg, exported,
                   events>>

\* lines 190-209: the loop takes the next spec and builds its configs and log_dir.
\* Building a stage's task and training it take longer than the one-second resolution
\* of the log_dir stamp, so each stage reads a later datetime.now() than the one before.
StageConfigure ==
    /\ pc = "for"
    /\ idx <= Len(skill_specs)
    /\ LET spec == skill_specs[idx]
           now == clock + 1
       IN  \E ok \in BOOLEAN :
             IF ok
             THEN /\ env_cfg' = spec.gym_id
                  /\ agent_cfg' = [max_iterations |-> ResolveMaxIterations(spec, args_cli)]
                  /\ clock' = now
                  /\ log_dir' = [experiment_name |-> ExperimentName(spec), stamp |-> now]
                  /\ pc' = "make"
                  /\ exc' = exc
             ELSE /\ RaiseTo("finally_app", "ConfigError")
                  /\ UNCHANGED <<env_cfg, agent_cfg, clock, log_dir>>
    /\ UNCHANGED <<regVars, libVars, args_cli, simulation_app, app_close_calls, skill_specs,
                   robot_name, idx, env, runner, last_checkpoint, final, files,
                   exported, events>>

\* line 190: the loop is exhausted
LoopEnd ==
    /\ pc = "for"
    /\ idx > Len(skill_specs)
    /\ pc' = "finally_app"
    /\ UNCHANGED <<regVars, libVars, args_cli, exc, simulation_app, app_close_calls, skill_specs,
                   robot_name, idx, agent_cfg, log_dir, env, runner, last_checkpoint,
                   final, files, clock, env_cfg, exported, events>>

\* line 211: env = gym.make(spec.gym_id, cfg=env_cfg, ...), outside the inner try
MakeEnv ==
    /\ pc = "make"
    /\ \E ok \in BOOLEAN :
         IF ok
         THEN /\ env' = "open"
              /\ events' = Append(events, Ev("make", skill_specs[idx].gym_id))
              /\ pc' = "wrap"
              /\ exc' = exc
         ELSE /\ RaiseTo("finally_app", "MakeError")
              /\ UNCHANGED <<env, events>>
    /\ UNCHANGED <<regVars, libVars, args_cli, simulation_app, app_close_calls, skill_specs,
                   robot_name, idx, agent_cfg, log_dir, runner, last_checkpoint, final,
                   files, clock, env_cfg, exported>>

\* lines 214-228: RecordVideo and the RSL-RL wrapper; env.close() reaches the task
\* through every wrapper
WrapEnv ==
    /\ pc = "wrap"
    /\ \E ok \in BOOLEAN :
         IF ok
         THEN pc' = "runner" /\ exc' = exc
         ELSE RaiseTo("finally_env", "WrapError")
    /\ UNCHANGED <<regVars, libVars, args_cli, simulation_app, app_close_calls, skill_specs,
                   robot_name, idx, agent_cfg, log_dir, env, runner, last_checkpoint,
                   final, files, clock, env_cfg, exported, events>>

\* lines 230-231: runner = OnPolicyRunner(env, ...)
CreateRunner ==
    /\ pc = "runner"
    /\ \E ok \in BOOLEAN :
         IF ok
         THEN /\ runner' = [exists |-> TRUE, current_learning_iteration |-> 0]
              /\ events' = Append(events, Ev("runner", log_dir))
              /\ pc' = "load"
              /\ exc' = exc
         ELSE /\ RaiseTo("finally_env", "RunnerError")
              /\ UNCHANGED <<runner, events>>
    /\ UNCHANGED <<regVars, libVars, args_cli, simulation_app, app_close_calls, skill_specs,
                   robot_name, idx, agent_cfg, log_dir, env, last_checkpoint, final,
                   files, clock, env_cfg, exported>>

\* Mutant of LoadCheckpoint: the new runner is never warm-started.
LoadCheckpoint_NoWarmStart ==
    /\ pc = "load"
    /\ pc' = "seed"
    /\ UNCHANGED <<regVars, libVars, args_cli, exc, simulation_app, app_close_calls, skill_specs,
                   robot_name, idx, agent_cfg, log_dir, env, runner, last_checkpoint,
                   final, files, clock, env_cfg, exported, events>>

\* lines 233-235: warm start. runner.load raises when the file is missing or unreadable;
\* a loaded checkpoint restores its iteration count.
LoadCheckpoint ==
    /\ pc = "load"
    /\ IF ~IsNone(last_checkpoint)
       THEN /\ events' = Append(events, Ev("load", last_checkpoint[1]))
            /\ \E ok \in BOOLEAN :
                 IF ok /\ last_checkpoint[1] \in files
                 THEN /\ runner' = [runner EXCEPT
                            !.current_learning_iteration = last_checkpoint[1].model]
                      /\ pc' = "seed"
                      /\ exc' = exc
                 ELSE /\ RaiseTo("finally_env", "LoadError")
                      /\ UNCHANGED runner
       ELSE /\ pc' = "seed"
            /\ UNCHANGED <<events, runner, exc>>
    /\ UNCHANGED <<regVars, libVars, args_cli, simulation_app, app_close_calls, skill_specs,
                   robot_name, idx, agent_cfg, log_dir, env, last_checkpoint, final,
                   files, clock, env_cfg, exported>>

\* line 237: env.seed(agent_cfg.seed)
SeedEnv ==
    /\ pc = "seed"
    /\ events' = Append(events, Ev("seed", None))
    /\ \E ok \in BOOLEAN :
         IF ok
         THEN pc' = "dump" /\ exc' = exc
         ELSE RaiseTo("finally_env", "SeedError")
    /\ UNCHANGED <<regVars, libVars, args_cli, simulation_app, app_close_calls, skill_specs,
                   robot_name, idx, agent_cfg, log_dir, env, runner, last_checkpoint,
                   final, files, clock, env_cfg, exported>>

\* lines 239-242: dump_yaml / dump_pickle of both configs under log_dir/params
DumpParams ==
    /\ pc = "dump"
    /\ \E ok \in BOOLEAN :
         IF ok
         THEN /\ events' = Append(events, Ev("dump", log_dir))
              /\ files' = files \cup {ParamsPath(log_dir, ParamsFiles[i]) : i \in 1..4}
              /\ pc' = "learn"
              /\ exc' = exc
         ELSE /\ RaiseTo("finally_env", "DumpError")
              /\ \E written \in 0..3 :
                   files' = files \cup {ParamsPath(log_dir, ParamsFiles[i]) : i \in 1..written}
              /\ UNCHANGED events
    /\ UNCHANGED <<regVars, libVars, args_cli, simulation_app, app_close_calls, skill_specs,
                   robot_name, idx, agent_cfg, log_dir, env, runner, last_checkpoint,
                   final, clock, env_cfg, exported>>

\* lines 245-280: runner.learn(num_learning_iterations=agent_cfg.max_iterations, ...) is
\* entered; with --use_wandb runner.learn was replaced by learn_with_wandb
LearnCall ==
    /\ pc = "learn"
    /\ events' = Append(events, Ev("learn", agent_cfg.max_iterations))
    /\ pc' = "learning"
    /\ UNCHANGED <<regVars, libVars, args_cli, exc, simulation_app, app_close_calls, skill_specs,
                   robot_name, idx, agent_cfg, log_dir, env, runner, last_checkpoint,
                   final, files, clock, env_cfg, exported>>

\* The blocking learn call returns or raises. OnPolicyRunner.learn advances
\* current_learning_iteration and saves log_dir/model_{current_learning_iteration}.pt
\* before returning; learn_with_wandb (lines 249-276) does neither.
LearnReturn ==
    /\ pc = "learning"
    /\ \E ok \in BOOLEAN :
         IF ok
         THEN /\ IF args_cli.use_wandb
                 THEN UNCHANGED <<runner, files>>
                 ELSE LET it == runner.current_learning_iteration + agent_cfg.max_iterations
                      IN  /\ runner' = [runner EXCEPT !.current_learning_iteration = it]
                          /\ files' = files \cup {CheckpointPath(log_dir, it)}
              /\ events' = Append(events, Ev("learn_returned", None))
              /\ pc' = "record"
              /\ exc' = exc
         ELSE /\ RaiseTo("finally_env", "LearnError")
              /\ UNCHANGED <<runner, files, events>>
    /\ UNCHANGED <<regVars, libVars, args_cli, simulation_app, app_close_calls, skill_specs,
                   robot_name, idx, agent_cfg, log_dir, env, last_checkpoint, final,
                   clock, env_cfg, exported>>

\* Mutant of RecordCheckpoint: the path is named after the stage's budget, not after
\* the learner's iteration count.
RecordCheckpoint_Budget ==
    /\ pc = "record"
    /\ last_checkpoint' = Some(CheckpointPath(log_dir, agent_cfg.max_iterations))
    /\ final' = [runner |-> Some(idx), env_cfg |-> Some(env_cfg),
                 agent_cfg |-> Some(agent_cfg), log_dir |-> Some(log_dir)]
    /\ events' = Append(events, Ev("checkpoint",
                          CheckpointPath(log_dir, agent_cfg.max_iterations)))
    /\ pc' = "finally_env"
    /\ UNCHANGED <<regVars, libVars, args_cli, exc, simulation_app, app_close_calls, skill_specs,
                   robot_name, idx, agent_cfg, log_dir, env, runner, files, clock,
                   env_cfg, exported>>

\* lines 282-288: the stage's checkpoint path and the final_* references
RecordCheckpoint ==
    /\ pc = "record"
    /\ last_checkpoint' =
         Some(CheckpointPath(log_dir, runner.current_learning_iteration))
    /\ final' = [runner |-> Some(idx), env_cfg |-> Some(env_cfg),
                 agent_cfg |-> Some(agent_cfg), log_dir |-> Some(log_dir)]
    /\ events' = Append(events, Ev("checkpoint",
                          CheckpointPath(log_dir, runner.current_learning_iteration)))
    /\ pc' = "finally_env"
    /\ UNCHANGED <<regVars, libVars, args_cli, exc, simulation_app, app_close_calls, skill_specs,
                   robot_name, idx, agent_cfg, log_dir, env, runner, files, clock,
                   env_cfg, exported>>

\* Mutant of CloseEnv: close is called after the try block instead of in a finally, so a
\* failed stage leaves its task open.
CloseEnv_OnlyOnSuccess ==
    /\ pc = "finally_env"
    /\ IF exc # "none"
       THEN /\ pc' = "finally_app"
            /\ UNCHANGED <<events, env, exc, idx>>
       ELSE /\ events' = Append(events, Ev("close", None))
            /\ env' = "closed"
            /\ exc' = exc
            /\ pc' = "for"
            /\ idx' = idx + 1
    /\ UNCHANGED <<regVars, libVars, args_cli, simulation_app, app_close_calls, skill_specs,
                   robot_name, agent_cfg, log_dir, runner, last_checkpoint, final, files,
                   clock, env_cfg, exported>>

\* Mutant of CloseEnv: close is called in an except block only, so a stage that
\* completed leaves its task open when the next stage starts.
CloseEnv_OnlyOnFailure ==
    /\ pc = "finally_env"
    /\ IF exc # "none"
       THEN /\ events' = Append(events, Ev("close", None))
            /\ env' = "closed"
            /\ pc' = "finally_app"
            /\ idx' = idx
       ELSE /\ pc' = "for"
            /\ idx' = idx + 1
            /\ UNCHANGED <<events, env>>
    /\ UNCHANGED <<regVars, libVars, args_cli, exc, simulation_app, app_close_calls, skill_specs,
                   robot_name, agent_cfg, log_dir, runner, last_checkpoint, final, files,
                   clock, env_cfg, exported>>

\* Mutant of CloseEnv: a failed stage is logged and skipped, and the loop goes on.
CloseEnv_SkipAndContinue ==
    /\ pc = "finally_env"
    /\ events' = Append(events, Ev("close", None))
    /\ env' = "closed"
    /\ exc' = "none"
    /\ pc' = "for"
    /\ idx' = idx + 1
    /\ UNCHANGED <<regVars, libVars, args_cli, simulation_app, app_close_calls, skill_specs,
                   robot_name, agent_cfg, log_dir, runner, last_checkpoint, final, files,
                   clock, env_cfg, exported>>

\* lines 290-291: finally: env.close(). An exception raised by close replaces the one
\* in flight; otherwise the one in flight continues, or the loop goes on.
CloseEnv ==
    /\ pc = "finally_env"
    /\ events' = Append(events, Ev("close", None))
    /\ \E ok \in BOOLEAN :
         /\ env' = IF ok THEN "closed" ELSE env
         /\ exc' = IF ok THEN exc ELSE "CloseError"
    /\ IF exc' # "none"
       THEN pc' = "finally_app" /\ idx' = idx
       ELSE pc' = "for" /\ idx' = idx + 1
    /\ UNCHANGED <<regVars, libVars, args_cli, simulation_app, app_close_calls, skill_specs,
                   robot_name, agent_cfg, log_dir, runner, last_checkpoint, final, files,
                   clock, env_cfg, exported>>

\* Mutant of CloseApp: the stage failure is swallowed and main goes on to the export.
CloseApp_Swallow ==
    /\ pc = "finally_app"
    /\ simulation_app' = "closed"
    /\ app_close_calls' = app_close_calls + 1
    /\ pc' = "check_final"
    /\ UNCHANGED <<regVars, libVars, args_cli, exc, skill_specs, robot_name, idx, agent_cfg,
                   log_dir, env, runner, last_checkpoint, final, files, clock, env_cfg,
                   exported, events>>

\* lines 293-294: finally: simulation_app.close()
\* Mutant of CloseApp: a failed run removes the logs written so far.
CloseApp_RemovesLogs ==
    /\ pc = "finally_app"
    /\ simulation_app' = "closed"
    /\ app_close_calls' = app_close_calls + 1
    /\ pc' = IF exc # "none" THEN "exit" ELSE "check_final"
    /\ files' = IF exc # "none" THEN {} ELSE files
    /\ UNCHANGED <<regVars, libVars, args_cli, exc, skill_specs, robot_name, idx, agent_cfg,
                   log_dir, env, runner, last_checkpoint, final, clock, env_cfg,
                   exported, events>>

CloseApp ==
    /\ pc = "finally_app"
    /\ simulation_app' = "closed"
    /\ app_close_calls' = app_close_calls + 1
    /\ pc' = IF exc # "none" THEN "exit" ELSE "check_final"
    /\ UNCHANGED <<regVars, libVars, args_cli, exc, skill_specs, robot_name, idx, agent_cfg,
                   log_dir, env, runner, last_checkpoint, final, files, clock, env_cfg,
                   exported, events>>

\* lines 296-297
CheckFinal ==
    /\ pc = "check_final"
    /\ IF IsNone(final.runner) \/ IsNone(final.env_cfg) \/ IsNone(final.agent_cfg)
          \/ IsNone(final.log_dir)
       THEN RaiseTo("exit", "RuntimeError")
       ELSE pc' = "export" /\ exc' = exc
    /\ UNCHANGED <<regVars, libVars, args_cli, simulation_app, app_close_calls, skill_specs,
                   robot_name, idx, agent_cfg, log_dir, env, runner, last_checkpoint,
                   final, files, clock, env_cfg, exported, events>>

\* lines 299-312: the merged spec
\* Mutant of CombinedSpec: the gym id and the config classes are the first stage's.
CombinedSpec_FirstStage(now) ==
    LET first == skill_specs[1]
    IN  [skill_id |-> IF IsNone(args_cli.combined_skill_id)
                      THEN [robot |-> robot_name, multi |-> "multi", stamp |-> now]
                      ELSE [given |-> args_cli.combined_skill_id[1]],
         robot |-> robot_name,
         gym_id |-> first.gym_id,
         env_cfg_cls |-> first.env_cfg_cls,
         runner_cfg_cls |-> first.runner_cfg_cls,
         tags |-> <<"multi", "sequential">>,
         metadata |-> [skills |-> args_cli.skills]]

\* lines 299-312: the merged SkillSpec; the default skill_id
\* f"{robot_name}/multi/{now:%Y%m%d%H%M%S}" is kept as its three parts.
CombinedSpec(now) ==
    LET last == skill_specs[Len(skill_specs)]
    IN  [skill_id |-> IF IsNone(args_cli.combined_skill_id)
                      THEN [robot |-> robot_name, multi |-> "multi", stamp |-> now]
                      ELSE [given |-> args_cli.combined_skill_id[1]],
         robot |-> robot_name,
         gym_id |-> last.gym_id,
         env_cfg_cls |-> last.env_cfg_cls,
         runner_cfg_cls |-> last.runner_cfg_cls,
         tags |-> <<"multi", "sequential">>,
         metadata |-> [skills |-> args_cli.skills]]

\* lines 299-320: skill_library.export(spec=combined_spec, runner=final_runner, ...)
ExportCombined ==
    /\ pc = "export"
    /\ \E ok \in BOOLEAN :
         /\ clock' = clock + 1
         /\ exported' = Append(exported,
              [spec |-> CombinedSpec(clock + 1), runner |-> final.runner[1],
               agent_cfg |-> final.agent_cfg[1], env_cfg |-> final.env_cfg[1],
               log_dir |-> final.log_dir[1], completed |-> ok,
               app |-> simulation_app, env |-> env])
         /\ IF ok THEN pc' = "exit" /\ exc' = exc
                  ELSE RaiseTo("exit", "ExportError")
    /\ UNCHANGED <<regVars, libVars, args_cli, simulation_app, app_close_calls, skill_specs,
                   robot_name, idx, agent_cfg, log_dir, env, runner, last_checkpoint,
                   final, files, env_cfg, events>>

(***************************************************************************)
(* scripts/train_skill.py                                                  *)
(***************************************************************************)

\* Longest --skill list tried with train_skill.
MaxSkills == 2

\* build_arg_parser / parse_args of train_skill: the arguments its main reads;
\* --skill never given leaves skills empty. agent_cfg.resume comes from --resume.
SkillArgsSpace ==
    [skills : SeqsUpTo(SkillArgs, MaxSkills),
     list_skills : BOOLEAN,
     robot : {None, "go2"},
     max_iterations : {Nothing, Some(0), Some(5)},
     resume : BOOLEAN]

\* lines 100-101: `if args_cli.max_iterations:` keeps the factory value for None and 0.
SkillMaxIterations(spec, args) ==
    IF ~IsNone(args.max_iterations) /\ args.max_iterations[1] # 0
    THEN args.max_iterations[1]
    ELSE FactoryMaxIterations(spec)

\* get_checkpoint_path(log_root, load_run, load_checkpoint) with the defaults: the
\* last checkpoint of the last run directory of the experiment, nothing when the
\* experiment has no checkpoint.
LatestCheckpoint(f, experiment_name) ==
    LET found == {c \in f : /\ "model" \in DOMAIN c
                             /\ c.dir.experiment_name = experiment_name}
    IN  IF found = {} THEN Nothing
        ELSE Some(CHOOSE c \in found : \A d \in found :
                    \/ d.dir.stamp < c.dir.stamp
                    \/ d.dir.stamp = c.dir.stamp /\ d.model <= c.model)

\* A checkpoint an earlier run of train_skill left under logs/rsl_rl.
OldCheckpoint == CheckpointPath([experiment_name |-> "H1ForwardWalkSkillRunnerCfg",
                                 stamp |-> 0], 9)

\* lines 60-62: --list_skills, before the simulator is launched
TrainSkill_ListSkills ==
    /\ pc = "skill_start"
    /\ args_cli.list_skills
    /\ events' = Append(events, Ev("list_skills", Len(ListCall(_skills, args_cli.robot).items)))
    /\ pc' = "exit"
    /\ UNCHANGED <<regVars, libVars, args_cli, exc, simulation_app, app_close_calls,
                   skill_specs, robot_name, idx, agent_cfg, log_dir, env, runner,
                   last_checkpoint, final, files, clock, env_cfg, exported>>

\* lines 64-65: parser.error exits the process
TrainSkill_RejectNoSkills ==
    /\ pc = "skill_start"
    /\ ~args_cli.list_skills
    /\ args_cli.skills = <<>>
    /\ RaiseTo("exit", "SystemExit")
    /\ UNCHANGED <<regVars, libVars, args_cli, simulation_app, app_close_calls, skill_specs,
                   robot_name, idx, agent_cfg, log_dir, env, runner, last_checkpoint,
                   final, files, clock, env_cfg, exported, events>>

\* Mutant of TrainSkill_LaunchApp: --list_skills prints the catalog and main goes on.
TrainSkill_LaunchApp_AfterListing ==
    /\ pc = "skill_start"
    /\ args_cli.skills # <<>>
    /\ simulation_app' = "running"
    /\ idx' = 1
    /\ pc' = "skill_for"
    /\ UNCHANGED <<regVars, libVars, args_cli, exc, app_close_calls, skill_specs, robot_name,
                   agent_cfg, log_dir, env, runner, last_checkpoint, final, files, clock,
                   env_cfg, exported, events>>

\* lines 67-92: AppLauncher(args_cli), the deferred imports, SkillLibrary(export_dir)
TrainSkill_LaunchApp ==
    /\ pc = "skill_start"
    /\ ~args_cli.list_skills
    /\ args_cli.skills # <<>>
    /\ simulation_app' = "running"
    /\ idx' = 1
    /\ pc' = "skill_for"
    /\ UNCHANGED <<regVars, libVars, args_cli, exc, app_close_calls, skill_specs, robot_name,
                   agent_cfg, log_dir, env, runner, last_checkpoint, final, files, clock,
                   env_cfg, exported, events>>

\* lines 93-108: the loop takes the next skill id, resolves it and builds its configs
\* and log_dir; skill_specs keeps the specs resolved so far.
TrainSkill_Configure ==
    /\ pc = "skill_for"
    /\ idx <= Len(args_cli.skills)
    /\ LET got == GetCall(_skills, args_cli.skills[idx])
           now == clock + 1
       IN  IF got.outcome # "ok"
           THEN /\ RaiseTo("skill_finally_app", "KeyError")
                /\ UNCHANGED <<skill_specs, env_cfg, agent_cfg, clock, log_dir, events>>
           ELSE \E ok \in BOOLEAN :
                  /\ skill_specs' = Append(skill_specs, got.spec)
                  /\ events' = Append(events, Ev("get_skill", got.spec.skill_id))
                  /\ IF ok
                     THEN /\ env_cfg' = got.spec.gym_id
                          /\ agent_cfg' = [max_iterations |->
                                             SkillMaxIterations(got.spec, args_cli)]
                          /\ clock' = now
                          /\ log_dir' = [experiment_name |-> ExperimentName(got.spec),
                                         stamp |-> now]
                          /\ pc' = "skill_make"
                          /\ exc' = exc
                     ELSE /\ RaiseTo("skill_finally_app", "ConfigError")
                          /\ UNCHANGED <<env_cfg, agent_cfg, clock, log_dir>>
    /\ UNCHANGED <<regVars, libVars, args_cli, simulation_app, app_close_calls, robot_name,
                   idx, env, runner, last_checkpoint, final, files, exported>>

\* line 93: the loop is exhausted
TrainSkill_LoopEnd ==
    /\ pc = "skill_for"
    /\ idx > Len(args_cli.skills)
    /\ pc' = "skill_finally_app"
    /\ UNCHANGED <<regVars, libVars, args_cli, exc, simulation_app, app_close_calls,
                   skill_specs, robot_name, idx, agent_cfg, log_dir, env, runner,
                   last_checkpoint, final, files, clock, env_cfg, exported, events>>

\* line 110: env = gym.make(spec.gym_id, cfg=env_cfg, ...), outside the inner try
TrainSkill_MakeEnv ==
    /\ pc = "skill_make"
    /\ \E ok \in BOOLEAN :
         IF ok
         THEN /\ env' = "open"
              /\ events' = Append(events, Ev("make", skill_specs[idx].gym_id))
              /\ pc' = "skill_wrap"
              /\ exc' = exc
         ELSE /\ RaiseTo("skill_finally_app", "MakeError")
              /\ UNCHANGED <<env, events>>
    /\ UNCHANGED <<regVars, libVars, args_cli, simulation_app, app_close_calls, skill_specs,
                   robot_name, idx, agent_cfg, log_dir, runner, last_checkpoint, final,
                   files, clock, env_cfg, exported>>

\* lines 112-126: RecordVideo and the RSL-RL wrapper
TrainSkill_WrapEnv ==
    /\ pc = "skill_wrap"
    /\ \E ok \in BOOLEAN :
         IF ok
         THEN pc' = "skill_runner" /\ exc' = exc
         ELSE RaiseTo("skill_finally_env", "WrapError")
    /\ UNCHANGED <<regVars, libVars, args_cli, simulation_app, app_close_calls, skill_specs,
                   robot_name, idx, agent_cfg, log_dir, env, runner, last_checkpoint,
                   final, files, clock, env_cfg, exported, events>>

\* lines 128-129: runner = OnPolicyRunner(env, ...)
TrainSkill_CreateRunner ==
    /\ pc = "skill_runner"
    /\ \E ok \in BOOLEAN :
         IF ok
         THEN /\ runner' = [exists |-> TRUE, current_learning_iteration |-> 0]
              /\ events' = Append(events, Ev("runner", log_dir))
              /\ pc' = "skill_resume"
              /\ exc' = exc
         ELSE /\ RaiseTo("skill_finally_env", "RunnerError")
              /\ UNCHANGED <<runner, events>>
    /\ UNCHANGED <<regVars, libVars, args_cli, simulation_app, app_close_calls, skill_specs,
                   robot_name, idx, agent_cfg, log_dir, env, last_checkpoint, final,
                   files, clock, env_cfg, exported>>

\* lines 131-138: with resume, the latest checkpoint of the experiment is loaded;
\* get_checkpoint_path raises when there is none.
TrainSkill_Resume ==
    /\ pc = "skill_resume"
    /\ IF args_cli.resume
       THEN LET resume_path == LatestCheckpoint(files, log_dir.experiment_name)
            IN  IF IsNone(resume_path)
                THEN /\ RaiseTo("skill_finally_env", "ValueError")
                     /\ UNCHANGED <<events, runner>>
                ELSE /\ events' = Append(events, Ev("load", resume_path[1]))
                     /\ \E ok \in BOOLEAN :
                          IF ok
                          THEN /\ runner' = [runner EXCEPT
                                     !.current_learning_iteration = resume_path[1].model]
                               /\ pc' = "skill_seed"
                               /\ exc' = exc
                          ELSE /\ RaiseTo("skill_finally_env", "LoadError")
                               /\ UNCHANGED runner
       ELSE /\ pc' = "skill_seed"
            /\ UNCHANGED <<events, runner, exc>>
    /\ UNCHANGED <<regVars, libVars, args_cli, simulation_app, app_close_calls, skill_specs,
                   robot_name, idx, agent_cfg, log_dir, env, last_checkpoint, final,
                   files, clock, env_cfg, exported>>

\* line 140: env.seed(agent_cfg.seed)
TrainSkill_SeedEnv ==
    /\ pc = "skill_seed"
    /\ events' = Append(events, Ev("seed", None))
    /\ \E ok \in BOOLEAN :
         IF ok
         THEN pc' = "skill_dump" /\ exc' = exc
         ELSE RaiseTo("skill_finally_env", "SeedError")
    /\ UNCHANGED <<regVars, libVars, args_cli, simulation_app, app_close_calls, skill_specs,
                   robot_name, idx, agent_cfg, log_dir, env, runner, last_checkpoint,
                   final, files, clock, env_cfg, exported>>

\* lines 142-145: dump_yaml / dump_pickle of both configs under log_dir/params
TrainSkill_DumpParams ==
    /\ pc = "skill_dump"
    /\ \E ok \in BOOLEAN :
         IF ok
         THEN /\ events' = Append(events, Ev("dump", log_dir))
              /\ files' = files \cup {ParamsPath(log_dir, ParamsFiles[i]) : i \in 1..4}
              /\ pc' = "skill_learn"
              /\ exc' = exc
         ELSE /\ RaiseTo("skill_finally_env", "DumpError")
              /\ \E written \in 0..3 :
                   files' = files \cup {ParamsPath(log_dir, ParamsFiles[i]) : i \in 1..written}
              /\ UNCHANGED events
    /\ UNCHANGED <<regVars, libVars, args_cli, simulation_app, app_close_calls, skill_specs,
                   robot_name, idx, agent_cfg, log_dir, env, runner, last_checkpoint,
                   final, clock, env_cfg, exported>>

\* line 147: runner.learn(num_learning_iterations=agent_cfg.max_iterations, ...) is entered
TrainSkill_LearnCall ==
    /\ pc = "skill_learn"
    /\ events' = Append(events, Ev("learn", agent_cfg.max_iterations))
    /\ pc' = "skill_learning"
    /\ UNCHANGED <<regVars, libVars, args_cli, exc, simulation_app, app_close_calls,
                   skill_specs, robot_name, idx, agent_cfg, log_dir, env, runner,
                   last_checkpoint, final, files, clock, env_cfg, exported>>

\* The blocking learn call returns or raises. OnPolicyRunner.learn advances
\* current_learning_iteration and saves log_dir/model_{current_learning_iteration}.pt
\* before returning.
TrainSkill_LearnReturn ==
    /\ pc = "skill_learning"
    /\ \E ok \in BOOLEAN :
         IF ok
         THEN LET it == runner.current_learning_iteration + agent_cfg.max_iterations
              IN  /\ runner' = [runner EXCEPT !.current_learning_iteration = it]
                  /\ files' = files \cup {CheckpointPath(log_dir, it)}
                  /\ events' = Append(events, Ev("learn_returned", None))
                  /\ pc' = "skill_export"
                  /\ exc' = exc
         ELSE /\ RaiseTo("skill_finally_env", "LearnError")
              /\ UNCHANGED <<runner, files, events>>
    /\ UNCHANGED <<regVars, libVars, args_cli, simulation_app, app_close_calls, skill_specs,
                   robot_name, idx, agent_cfg, log_dir, env, last_checkpoint, final,
                   clock, env_cfg, exported>>

\* lines 149-155: skill_library.export(spec=spec, runner=runner, ...), inside the try
TrainSkill_Export ==
    /\ pc = "skill_export"
    /\ \E ok \in BOOLEAN :
         /\ exported' = Append(exported,
              [spec |-> skill_specs[idx], runner |-> idx,
               agent_cfg |-> agent_cfg, env_cfg |-> env_cfg,
               log_dir |-> log_dir, completed |-> ok,
               app |-> simulation_app, env |-> env])
         /\ IF ok THEN pc' = "skill_finally_env" /\ exc' = exc
                  ELSE RaiseTo("skill_finally_env", "ExportError")
    /\ UNCHANGED <<regVars, libVars, args_cli, simulation_app, app_close_calls, skill_specs,
                   robot_name, idx, agent_cfg, log_dir, env, runner, last_checkpoint,
                   final, files, clock, env_cfg, events>>

\* Mutant of TrainSkill_CloseEnv: a failed skill is skipped and the loop goes on.
TrainSkill_CloseEnv_SkipAndContinue ==
    /\ pc = "skill_finally_env"
    /\ events' = Append(events, Ev("close", None))
    /\ env' = "closed"
    /\ exc' = exc
    /\ pc' = "skill_for"
    /\ idx' = idx + 1
    /\ UNCHANGED <<regVars, libVars, args_cli, simulation_app, app_close_calls, skill_specs,
                   robot_name, agent_cfg, log_dir, runner, last_checkpoint, final, files,
                   clock, env_cfg, exported>>

\* lines 157-158: finally: env.close(). An exception raised by close replaces the one
\* in flight; otherwise the one in flight continues, or the loop goes on.
TrainSkill_CloseEnv ==
    /\ pc = "skill_finally_env"
    /\ events' = Append(events, Ev("close", None))
    /\ \E ok \in BOOLEAN :
         /\ env' = IF ok THEN "closed" ELSE env
         /\ exc' = IF ok THEN exc ELSE "CloseError"
    /\ IF exc' # "none"
       THEN pc' = "skill_finally_app" /\ idx' = idx
       ELSE pc' = "skill_for" /\ idx' = idx + 1
    /\ UNCHANGED <<regVars, libVars, args_cli, simulation_app, app_close_calls, skill_specs,
                   robot_name, agent_cfg, log_dir, runner, last_checkpoint, final, files,
                   clock, env_cfg, exported>>

\* lines 160-161: finally: simulation_app.close(), then main returns or raises
TrainSkill_CloseApp ==
    /\ pc = "skill_finally_app"
    /\ simulation_app' = "closed"
    /\ app_close_calls' = app_close_calls + 1
    /\ pc' = "exit"
    /\ UNCHANGED <<regVars, libVars, args_cli, exc, skill_specs, robot_name, idx, agent_cfg,
                   log_dir, env, runner, last_checkpoint, final, files, clock, env_cfg,
                   exported, events>>

(***************************************************************************)
(* utils/skill_library.py                                                  *)
(***************************************************************************)

\* Most export calls tried in one behaviour.
MaxExports == 2

\* Path(root_dir), created by SkillLibrary.__init__.
root_dir == <<"library">>

\* str.split("/") on a skill id.  A skill id is kept as the sequence of its "/"
\* characters and of the runs of other characters between them ("a//b" is
\* <<"a", "/", "/", "b">>); the result is the sequence of segments, "" where two
\* separators meet or the id starts or ends with one.
RECURSIVE Split(_)
Split(skill_id) ==
    IF skill_id = <<>> THEN <<"">>
    ELSE IF Head(skill_id) = "/" THEN <<"">> \o Split(Tail(skill_id))
    ELSE <<Head(skill_id)>> \o Tail(Split(Tail(skill_id)))

\* pathlib's `path / part` for a part without "/": an empty part and "." add nothing.
PathJoin(path, part) == IF part \in {"", "."} THEN path ELSE Append(path, part)

\* The place the operating system reaches by a path: ".." steps to the parent.
RECURSIVE Resolve(_)
Resolve(path) ==
    IF path = <<>> THEN <<>>
    ELSE LET up == Resolve(SubSeq(path, 1, Len(path) - 1))
             last == path[Len(path)]
         IN  IF last = ".."
             THEN IF up = <<>> THEN <<>> ELSE SubSeq(up, 1, Len(up) - 1)
             ELSE Append(up, last)

\* Mutant of Mkdir: exist_ok is not passed, an existing directory is an error.
Mkdir_NoExistOk(f, path) ==
    LET made == {Resolve(SubSeq(path, 1, k)) : k \in 1..Len(path)}
    IN  IF Resolve(path) \in f.dirs \/ \E d \in made : d \in DOMAIN f.files
        THEN [fs |-> f, error |-> "OSError"]
        ELSE [fs |-> [f EXCEPT !.dirs = @ \cup made], error |-> "none"]

\* Path.mkdir(parents=True, exist_ok=True): every directory on the way is made unless
\* it is there; a regular file on the way or at the end is an error.
Mkdir(f, path) ==
    LET made == {Resolve(SubSeq(path, 1, k)) : k \in 1..Len(path)}
    IN  IF \E d \in made : d \in DOMAIN f.files
        THEN [fs |-> f, error |-> "OSError"]
        ELSE [fs |-> [f EXCEPT !.dirs = @ \cup made], error |-> "none"]

\* Mutant of WriteFile: a file that is there is kept as it is.
WriteFile_KeepsExisting(f, path, content) ==
    LET target == Resolve(path)
    IN  IF target \in f.dirs
        THEN [fs |-> f, error |-> "OSError"]
        ELSE [fs |-> [f EXCEPT !.files = [q \in (DOMAIN @) \cup {target} |->
                                            IF q \in DOMAIN @ THEN @[q] ELSE content]],
              error |-> "none"]

\* Opening a path for writing and writing `content`: the file is created or replaced;
\* a directory at the path is an error.
WriteFile(f, path, content) ==
    LET target == Resolve(path)
    IN  IF target \in f.dirs
        THEN [fs |-> f, error |-> "OSError"]
        ELSE [fs |-> [f EXCEPT !.files = [q \in (DOMAIN @) \cup {target} |->
                                            IF q = target THEN content ELSE @[q]]],
              error |-> "none"]

\* SkillLibrary._skill_dir
RECURSIVE JoinAll(_, _)
JoinAll(path, parts) ==
    IF parts = <<>> THEN path
    ELSE JoinAll(PathJoin(path, Head(parts)), Tail(parts))

SkillDir(f, spec) ==
    LET path == JoinAll(root_dir, Split(spec.skill_id))
        r == Mkdir(f, path)
    IN  [fs |-> r.fs, path |-> path, error |-> r.error]

\* SkillSpec.to_metadata
ToMetadata(spec) ==
    [skill_id |-> spec.skill_id, robot |-> spec.robot, gym_id |-> spec.gym_id,
     description |-> spec.description, tags |-> spec.tags, metadata |-> spec.metadata]

\* dict.update: the keys of `other` are added, and win where both have the key.
Update(dict, other) ==
    [k \in (DOMAIN dict) \cup (DOMAIN other) |->
        IF k \in DOMAIN other THEN other[k] ELSE dict[k]]

\* datetime.utcnow().isoformat(timespec="seconds") + "Z"
IsoZ(seconds) == [seconds |-> seconds, suffix |-> "Z"]

\* Mutant of BuildMetadata: extras are merged first, the library's own keys win.
BuildMetadata_ExtrasFirst(spec, a_runner, policy_path, a_log_dir, extras, now) ==
    LET base == IF IsNone(extras) THEN ToMetadata(spec)
                ELSE Update(ToMetadata(spec), extras[1])
    IN  Update(base, [exported_at |-> IsoZ(now),
                      policy |-> policy_path[Len(policy_path)],
                      log_dir |-> a_log_dir.text,
                      iterations |-> a_runner.current_learning_iteration])

\* lines 65-75: the metadata document.  getattr(runner, "current_learning_iteration",
\* None) is the optional value itself: Nothing is written as null.  `if extras:` is
\* false for None and for an empty dict alike.
BuildMetadata(spec, a_runner, policy_path, a_log_dir, extras, now) ==
    LET base == Update(ToMetadata(spec),
                       [exported_at |-> IsoZ(now),
                        policy |-> policy_path[Len(policy_path)],
                        log_dir |-> a_log_dir.text,
                        iterations |-> a_runner.current_learning_iteration])
    IN  IF IsNone(extras) THEN base ELSE Update(base, extras[1])

\* The skill ids exported: one segment, two segments, two segments around an empty
\* one, and one whose last segment is the name of an artifact file.
LibrarySkillIds ==
    { <<"a">>, <<"a", "/", "b">>, <<"a", "/", "/", "b">>, <<"a", "/", "policy.pt">> }

\* SkillSpec with the fields to_metadata reads.
LibrarySpec(skill_id) ==
    [skill_id |-> skill_id, robot |-> "go2", gym_id |-> "g1",
     env_cfg_cls |-> "EnvCfg1", runner_cfg_cls |-> "RunnerCfg1",
     description |-> "merged", tags |-> <<"multi", "sequential">>,
     metadata |-> [skills |-> <<"s1", "s2">>]]

\* The runner: with or without a current_learning_iteration attribute.
Runners == { [current_learning_iteration |-> Nothing],
             [current_learning_iteration |-> Some(7)] }

PolicyFilenames == {"policy.pt", "best.pt"}

\* extras: none, or a dict with a key of its own and a key the library also writes.
ExtrasSpace ==
    { Nothing,
      Some([note |-> "x", exported_at |-> [seconds |-> 0, suffix |-> "+09:00"]]) }

NoExport == [pc |-> "idle"]

\* The record of an export call that ended: what it was given, how it ended, what it
\* returned, the timestamp it read, and the file system before and after it.
Ended(call, outcome, result, f) ==
    [spec |-> call.spec, runner |-> call.runner, policy_filename |-> call.policy_filename,
     extras |-> call.extras, skill_dir |-> call.skill_dir, outcome |-> outcome,
     result |-> result, now |-> call.now, fs_before |-> call.fs_before, fs_after |-> f]

\* skill_library.export(spec=..., runner=..., agent_cfg=..., env_cfg=..., log_dir=...,
\*                      policy_filename=..., extras=...) is called.
ExportBegin(spec, a_runner, policy_filename, extras) ==
    /\ export.pc = "idle"
    /\ Len(export_log) < MaxExports
    /\ export' = [pc |-> "skill_dir", spec |-> spec, runner |-> a_runner,
                  agent_cfg |-> "agent_cfg", env_cfg |-> "env_cfg",
                  log_dir |-> [kind |-> "Path", text |-> "logs/run"],
                  policy_filename |-> policy_filename, extras |-> extras,
                  skill_dir |-> <<>>, policy_path |-> <<>>, metadata |-> <<>>,
                  now |-> 0, n |-> Len(export_log) + 1, fs_before |-> fs]
    /\ UNCHANGED <<regVars, mainVars, fs, export_log, utcnow>>

\* lines 55-56: skill_dir = self._skill_dir(spec); policy_path = skill_dir / policy_filename
SkillDirStep ==
    /\ export.pc = "skill_dir"
    /\ LET r == SkillDir(fs, export.spec)
       IN  IF r.error # "none"
           THEN /\ fs' = r.fs
                /\ export' = NoExport
                /\ export_log' = Append(export_log, Ended(export, "OSError", <<>>, r.fs))
           ELSE /\ fs' = r.fs
                /\ export' = [export EXCEPT !.pc = "save", !.skill_dir = r.path,
                                 !.policy_path = PathJoin(r.path, export.policy_filename)]
                /\ UNCHANGED export_log
    /\ UNCHANGED <<regVars, mainVars, utcnow>>

\* A file of the export is written and control moves on to `next`; an OSError ends
\* the call.  The values of fs, export and export_log after the step.
Written(path, content, next) ==
    LET w == WriteFile(fs, path, content)
    IN  IF w.error # "none"
        THEN [fs |-> w.fs, export |-> NoExport,
              export_log |-> Append(export_log, Ended(export, "OSError", <<>>, w.fs))]
        ELSE [fs |-> w.fs, export |-> [export EXCEPT !.pc = next],
              export_log |-> export_log]

\* line 57: runner.save(str(policy_path))
SaveStep ==
    /\ export.pc = "save"
    /\ LET w == Written(export.policy_path,
                        [kind |-> "checkpoint", of |-> export.runner, n |-> export.n],
                        "agent_yaml")
       IN  fs' = w.fs /\ export' = w.export /\ export_log' = w.export_log
    /\ UNCHANGED <<regVars, mainVars, utcnow>>

\* line 60: dump_yaml(skill_dir / "agent.yaml", agent_cfg)
DumpAgentYaml ==
    /\ export.pc = "agent_yaml"
    /\ LET w == Written(PathJoin(export.skill_dir, "agent.yaml"),
                        [kind |-> "yaml", of |-> export.agent_cfg, n |-> export.n],
                        "env_yaml")
       IN  fs' = w.fs /\ export' = w.export /\ export_log' = w.export_log
    /\ UNCHANGED <<regVars, mainVars, utcnow>>

\* line 61: dump_yaml(skill_dir / "env.yaml", env_cfg)
DumpEnvYaml ==
    /\ export.pc = "env_yaml"
    /\ LET w == Written(PathJoin(export.skill_dir, "env.yaml"),
                        [kind |-> "yaml", of |-> export.env_cfg, n |-> export.n],
                        "agent_pkl")
       IN  fs' = w.fs /\ export' = w.export /\ export_log' = w.export_log
    /\ UNCHANGED <<regVars, mainVars, utcnow>>

\* line 62: dump_pickle(skill_dir / "agent.pkl", agent_cfg)
DumpAgentPkl ==
    /\ export.pc = "agent_pkl"
    /\ LET w == Written(PathJoin(export.skill_dir, "agent.pkl"),
                        [kind |-> "pickle", of |-> export.agent_cfg, n |-> export.n],
                        "env_pkl")
       IN  fs' = w.fs /\ export' = w.export /\ export_log' = w.export_log
    /\ UNCHANGED <<regVars, mainVars, utcnow>>

\* line 63: dump_pickle(skill_dir / "env.pkl", env_cfg)
DumpEnvPkl ==
    /\ export.pc = "env_pkl"
    /\ LET w == Written(PathJoin(export.skill_dir, "env.pkl"),
                        [kind |-> "pickle", of |-> export.env_cfg, n |-> export.n],
                        "open")
       IN  fs' = w.fs /\ export' = w.export /\ export_log' = w.export_log
    /\ UNCHANGED <<regVars, mainVars, utcnow>>

\* Mutant of OpenMetadata: the metadata is written before the pickles, which are then
\* never written.
OpenMetadata_BeforePickles ==
    /\ export.pc \in {"agent_pkl", "open"}
    /\ utcnow' = utcnow + 1
    /\ LET w == WriteFile(fs, PathJoin(export.skill_dir, "metadata.json"),
                          [kind |-> "json", of |-> Nothing, n |-> export.n])
       IN  IF w.error # "none"
           THEN /\ fs' = w.fs
                /\ export' = NoExport
                /\ export_log' = Append(export_log,
                       Ended([export EXCEPT !.now = utcnow'], "OSError", <<>>, w.fs))
           ELSE /\ fs' = w.fs
                /\ export' = [export EXCEPT !.pc = "dump", !.now = utcnow',
                                 !.metadata = BuildMetadata(export.spec, export.runner,
                                     export.policy_path, export.log_dir, export.extras,
                                     utcnow')]
                /\ UNCHANGED export_log
    /\ UNCHANGED <<regVars, mainVars>>

\* lines 65-77: the metadata is built (utcnow is read; each read is a second later than
\* the one before) and metadata.json is opened for writing, which empties it.
OpenMetadata ==
    /\ export.pc = "open"
    /\ utcnow' = utcnow + 1
    /\ LET w == WriteFile(fs, PathJoin(export.skill_dir, "metadata.json"),
                          [kind |-> "json", of |-> Nothing, n |-> export.n])
       IN  IF w.error # "none"
           THEN /\ fs' = w.fs
                /\ export' = NoExport
                /\ export_log' = Append(export_log,
                       Ended([export EXCEPT !.now = utcnow'], "OSError", <<>>, w.fs))
           ELSE /\ fs' = w.fs
                /\ export' = [export EXCEPT !.pc = "dump", !.now = utcnow',
                                 !.metadata = BuildMetadata(export.spec, export.runner,
                                     export.policy_path, export.log_dir, export.extras,
                                     utcnow')]
                /\ UNCHANGED export_log
    /\ UNCHANGED <<regVars, mainVars>>

\* lines 78-80: json.dump(metadata, outfile, indent=2, sort_keys=True); return policy_path
DumpMetadata ==
    /\ export.pc = "dump"
    /\ LET w == WriteFile(fs, PathJoin(export.skill_dir, "metadata.json"),
                          [kind |-> "json", of |-> Some(export.metadata), n |-> export.n])
       IN  /\ fs' = w.fs
           /\ export' = NoExport
           /\ export_log' = Append(export_log,
                                   Ended(export, "returned", export.policy_path, w.fs))
    /\ UNCHANGED <<regVars, mainVars, utcnow>>

\* The process is stopped in the middle of an export and makes no further call.
Interrupt ==
    /\ export.pc \notin {"idle", "interrupted"}
    /\ export' = [export EXCEPT !.pc = "interrupted"]
    /\ UNCHANGED <<regVars, mainVars, fs, export_log, utcnow>>

(***************************************************************************)
(* Specifications                                                          *)
(***************************************************************************)

\* The library's variables before any export: SkillLibrary.__init__ made root_dir.
LibIdle ==
    /\ fs = [dirs |-> {root_dir}, files |-> <<>>]
    /\ export = NoExport
    /\ export_log = <<>>
    /\ utcnow = 0

\* main's variables before main runs
MainIdle ==
    /\ pc = "start"
    /\ exc = "none"
    /\ simulation_app = "unlaunched"
    /\ app_close_calls = 0
    /\ skill_specs = <<>>
    /\ robot_name = None
    /\ idx = 0
    /\ agent_cfg = NoAgentCfg
    /\ log_dir = NoLogDir
    /\ env = "none"
    /\ runner = NoRunner
    /\ last_checkpoint = Nothing
    /\ final = NoFinal
    /\ files = {}
    /\ clock = 0
    /\ env_cfg = None
    /\ exported = <<>>
    /\ events = <<>>
    /\ LibIdle

\* A run of train_multiskill.main: the skills package was imported, so the presets are
\* registered; the command line is any of ArgsSpace.
Init ==
    /\ gym_on_duplicate = "override"
    /\ LET r == RegisterAll(Presets, <<>>, <<>>, gym_on_duplicate)
       IN  _skills = r.skills /\ gym_registry = r.gym
    /\ first_registered = [i \in DOMAIN Presets |-> Presets[i].skill_id]
    /\ returned = <<>>
    /\ last_call = NoCall
    /\ last_ok = <<>>
    /\ args_cli \in ArgsSpace
    /\ MainIdle

Next ==
    \/ LaunchApp
    \/ ListSkills
    \/ RejectTooFewSkills
    \/ ResolveSkills
    \/ CheckRobots
    \/ StageConfigure
    \/ LoopEnd
    \/ MakeEnv
    \/ WrapEnv
    \/ CreateRunner
    \/ LoadCheckpoint
    \/ SeedEnv
    \/ DumpParams
    \/ LearnCall
    \/ LearnReturn
    \/ RecordCheckpoint
    \/ CloseEnv
    \/ CloseApp
    \/ CheckFinal
    \/ ExportCombined

Spec == Init /\ [][Next]_vars

\* main is one sequential program: whenever it has a next step it takes it.
SpecFair == Spec /\ WF_vars(Next)

\* A run of train_skill.main: the presets are registered, the command line is any of
\* SkillArgsSpace, and logs/rsl_rl is empty or holds a checkpoint of an earlier run.
InitSkill ==
    /\ gym_on_duplicate = "override"
    /\ LET r == RegisterAll(Presets, <<>>, <<>>, gym_on_duplicate)
       IN  _skills = r.skills /\ gym_registry = r.gym
    /\ first_registered = [i \in DOMAIN Presets |-> Presets[i].skill_id]
    /\ returned = <<>>
    /\ last_call = NoCall
    /\ last_ok = <<>>
    /\ args_cli \in SkillArgsSpace
    /\ pc = "skill_start"
    /\ exc = "none"
    /\ simulation_app = "unlaunched"
    /\ app_close_calls = 0
    /\ skill_specs = <<>>
    /\ robot_name = None
    /\ idx = 0
    /\ agent_cfg = NoAgentCfg
    /\ log_dir = NoLogDir
    /\ env = "none"
    /\ runner = NoRunner
    /\ last_checkpoint = Nothing
    /\ final = NoFinal
    /\ files \in {{}, {OldCheckpoint}}
    /\ clock = 0
    /\ env_cfg = None
    /\ exported = <<>>
    /\ events = <<>>
    /\ LibIdle

NextSkill ==
    \/ TrainSkill_ListSkills
    \/ TrainSkill_RejectNoSkills
    \/ TrainSkill_LaunchApp
    \/ TrainSkill_Configure
    \/ TrainSkill_LoopEnd
    \/ TrainSkill_MakeEnv
    \/ TrainSkill_WrapEnv
    \/ TrainSkill_CreateRunner
    \/ TrainSkill_Resume
    \/ TrainSkill_SeedEnv
    \/ TrainSkill_DumpParams
    \/ TrainSkill_LearnCall
    \/ TrainSkill_LearnReturn
    \/ TrainSkill_Export
    \/ TrainSkill_CloseEnv
    \/ TrainSkill_CloseApp

SpecSkill == InitSkill /\ [][NextSkill]_vars

\* Either script is run.
InitScripts == Init \/ InitSkill

NextScripts == Next \/ NextSkill

SpecScripts == InitScripts /\ [][NextScripts]_vars

\* A fresh SkillRegistry and an empty Gymnasium registry; main does not run.
InitRegistry ==
    /\ gym_on_duplicate \in {"override", "raise"}
    /\ _skills = <<>>
    /\ gym_registry = <<>>
    /\ first_registered = <<>>
    /\ returned = <<>>
    /\ last_call = NoCall
    /\ last_ok = <<>>
    /\ args_cli = [skills |-> <<>>, list_skills |-> FALSE, max_iterations |-> Nothing,
                   iterations_per_skill |-> Nothing, use_wandb |-> FALSE,
                   combined_skill_id |-> Nothing]
    /\ MainIdle

NextRegistry ==
    \/ \E spec \in SpecUniverse, force \in BOOLEAN, register_gym \in BOOLEAN :
         Register(spec, force, register_gym)
    \/ \E skill_id \in SkillIdUniverse : Get(skill_id)

SpecRegistry == InitRegistry /\ [][NextRegistry]_vars

\* register, list and find_by_gym_id calls on a fresh registry.
NextListing ==
    \/ \E spec \in ListingUniverse, force \in BOOLEAN, register_gym \in BOOLEAN :
         Register(spec, force, register_gym)
    \/ \E robot \in RobotFilters : List(robot)
    \/ \E gym_id \in GymIdUniverse : FindByGymId(gym_id)

SpecListing == InitRegistry /\ [][NextListing]_vars

\* export calls on a fresh SkillLibrary; the registry and main do not run.
InitLibrary == InitRegistry /\ gym_on_duplicate = "override"

NextLibrary ==
    \/ \E skill_id \in LibrarySkillIds, a_runner \in Runners,
          policy_filename \in PolicyFilenames, extras \in ExtrasSpace :
         ExportBegin(LibrarySpec(skill_id), a_runner, policy_filename, extras)
    \/ SkillDirStep
    \/ SaveStep
    \/ DumpAgentYaml
    \/ DumpEnvYaml
    \/ DumpAgentPkl
    \/ DumpEnvPkl
    \/ OpenMetadata
    \/ DumpMetadata
    \/ Interrupt

SpecLibrary == InitLibrary /\ [][NextLibrary]_vars

(***************************************************************************)
(* Properties of the sequential curriculum (checked under Spec)            *)
(***************************************************************************)

\* Positions in `events` of stage k's calls of `op`.
Calls(k, op) == {i \in DOMAIN events : events[i].stage = k /\ events[i].op = op}
Stages == 1..Len(skill_specs)
\* Stage k's task was instantiated (gym.make returned).
Made(k) == Calls(k, "make") # {}
\* Control has left stage k's try/finally (lines 213-291), or main has ended.
StageOver(k) ==
    \/ idx > k
    \/ idx = k /\ pc \in {"finally_app", "check_final", "export", "exit"}
\* An exception is in flight or has reached the caller.
Failed == exc # "none"

\* C1: every learn call of a stage k >= 2 is preceded by exactly one load call on that
\* stage's learner, whose argument is the checkpoint path recorded at the end of stage
\* k-1, and the stage makes no other load call; stage 1 makes no load call.
C1_WarmStartFromPreviousStage ==
    /\ Calls(1, "load") = {}
    /\ \A k \in Stages : Cardinality(Calls(k, "load")) <= 1
    /\ \A k \in Stages : \A j \in Calls(k, "learn") :
         k >= 2 =>
           /\ Cardinality(Calls(k, "load")) = 1
           /\ \A i \in Calls(k, "load") :
                /\ i < j
                /\ Cardinality(Calls(k - 1, "checkpoint")) = 1
                /\ \A c \in Calls(k - 1, "checkpoint") :
                     c < i /\ events[i].arg = events[c].arg

\* Stage 3 has entered learn: two warm starts have happened.
C1_Witness == Calls(3, "learn") # {}

\* The resolved skills do not all share one robot value.
Heterogeneous ==
    /\ skill_specs # <<>>
    /\ Cardinality({skill_specs[i].robot : i \in DOMAIN skill_specs}) # 1

\* C2: a curriculum with more than one robot value ends with ValueError (the spec's
\* HeterogeneousRobotFamily) at the check, with no task made, no learner created and no
\* learn call; a curriculum with one robot value passes the check and enters stage 1.
C2_HeterogeneousRejectedEarly ==
    /\ Heterogeneous =>
         /\ pc \in {"check_robots", "exit"}
         /\ pc = "exit" => exc = "ValueError"
         /\ \A i \in DOMAIN events : events[i].op \notin {"make", "runner", "learn"}
         /\ env = "none" /\ ~runner.exists
    /\ (skill_specs # <<>> /\ ~Heterogeneous /\ pc # "check_robots") =>
         /\ exc # "ValueError"
         /\ idx >= 1
         /\ robot_name = skill_specs[1].robot

C2_Witness == Heterogeneous /\ pc = "exit" /\ exc = "ValueError" /\ Len(skill_specs) = 3

\* C3: a stage whose task was made calls close at most once, and exactly once by the
\* time control leaves the stage, however it leaves it; it calls seed at most once, and
\* exactly once before its learn call.
C3_CloseOnceSeedOnce ==
    \A k \in Stages :
        /\ Cardinality(Calls(k, "close")) <= 1
        /\ Calls(k, "close") # {} => Made(k)
        /\ (Made(k) /\ StageOver(k)) => Cardinality(Calls(k, "close")) = 1
        /\ \A c \in Calls(k, "close") : \A i \in DOMAIN events :
             events[i].stage = k => i <= c
        /\ Cardinality(Calls(k, "seed")) <= 1
        /\ \A j \in Calls(k, "learn") :
             /\ Cardinality(Calls(k, "seed")) = 1
             /\ \A i \in Calls(k, "seed") : i < j

\* Stage 2 failed in learn, was closed once, and the failure reached the caller.
C3_Witness ==
    /\ pc = "exit" /\ exc = "LearnError" /\ idx = 2
    /\ Cardinality(Calls(2, "close")) = 1

\* C4: once a step has raised, the failure stays in flight until it reaches the caller,
\* the loop does not advance, and nothing more is called except the failed stage's close.
C4_FailureAbortsCurriculum ==
    [][Failed =>
        /\ exc' # "none"
        /\ idx' = idx
        /\ pc' \in {"finally_env", "finally_app", "exit"}
        /\ \A i \in (DOMAIN events') \ (DOMAIN events) :
             events'[i].op = "close" /\ events'[i].stage = idx
        /\ exported' = exported]_vars

\* Stage 2 of 3 failed in load and main ended: stage 3 was never started.
C4_Witness ==
    /\ pc = "exit" /\ exc = "LoadError" /\ idx = 2 /\ Len(skill_specs) = 3
    /\ \A i \in DOMAIN events : events[i].stage <= 2

\* C5: main reaches SkillLibrary.export only when no failure occurred and every stage's
\* learn call returned.
C5_ExportOnlyAfterAllStages ==
    (pc = "export" \/ exported # <<>>) =>
        /\ Len(skill_specs) >= 2
        /\ \A k \in Stages : Cardinality(Calls(k, "learn_returned")) = 1
        /\ \A i \in DOMAIN events : events[i].stage \in Stages
        /\ Len(exported) <= 1
        /\ pc = "export" => ~Failed

C5_Witness == Len(exported) = 1 /\ exported[1].completed /\ Len(skill_specs) = 3

\* The value an optional override carries.
Given(o) == o[1]

\* C6 as stated: max_iterations wins over iterations_per_skill, which wins over the
\* factory default.
C6_Original_MaxIterationsWins ==
    \A k \in Stages : \A j \in Calls(k, "learn") :
        events[j].arg =
            IF ~IsNone(args_cli.max_iterations) THEN Given(args_cli.max_iterations)
            ELSE IF ~IsNone(args_cli.iterations_per_skill)
                 THEN Given(args_cli.iterations_per_skill)
            ELSE FactoryMaxIterations(skill_specs[k])

\* C6 (amended): the budget of each stage's learn call is iterations_per_skill when it
\* is supplied (also when max_iterations is supplied too, and also when it is 0),
\* otherwise max_iterations when that is supplied, otherwise the factory default.
C6_IterationsPerSkillWins ==
    \A k \in Stages : \A j \in Calls(k, "learn") :
        /\ ~IsNone(args_cli.iterations_per_skill) =>
             events[j].arg = Given(args_cli.iterations_per_skill)
        /\ (IsNone(args_cli.iterations_per_skill) /\ ~IsNone(args_cli.max_iterations)) =>
             events[j].arg = Given(args_cli.max_iterations)
        /\ (IsNone(args_cli.iterations_per_skill) /\ IsNone(args_cli.max_iterations)) =>
             events[j].arg = FactoryMaxIterations(skill_specs[k])

\* Both overrides are supplied, with different values, and a learn call was made.
C6_Witness ==
    /\ args_cli.max_iterations = Some(5)
    /\ args_cli.iterations_per_skill = Some(3)
    /\ Calls(2, "learn") # {}

\* Tasks made and not yet closed.
OpenTasks == {k \in Stages : Made(k) /\ Calls(k, "close") = {}}

\* C7: at most one task is open; every earlier stage's task was closed before a stage's
\* task is made; a stage's learn call starts only after every earlier learn call returned.
C7_OneStageAtATime ==
    /\ Cardinality(OpenTasks) <= 1
    /\ \A k \in Stages : \A j \in Calls(k, "make") : \A k2 \in 1..(k - 1) :
         /\ Made(k2)
         /\ \E c \in Calls(k2, "close") : c < j
    /\ \A k \in Stages : \A j \in Calls(k, "learn") : \A k2 \in 1..(k - 1) :
         \E r \in Calls(k2, "learn_returned") : r < j
    /\ pc = "learning" => (env = "open" /\ OpenTasks = {idx})

\* Stage 2 is inside its learn call.
C7_Witness == pc = "learning" /\ idx = 2

(***************************************************************************)
(* Properties of the registry (checked under SpecRegistry)                 *)
(***************************************************************************)

\* The external registration of the call raises an error that register lets through.
ExternalFailure(call) == call.register_gym /\ Malformed(call.spec.gym_id)

\* C8: a register call without force on a skill_id already present ends with ValueError
\* (the spec's DuplicateRegistration) and changes neither the registry nor the gym
\* registry; with force it never ends with ValueError, it returns normally whenever the
\* external registration raises nothing that is let through, and a get of the skill_id
\* right after it returns the spec just passed.
C8_DuplicateNeedsForce ==
    [][LET call == last_call'
       IN  (call.op = "register" /\ Contains(_skills, call.spec.skill_id)) =>
             IF ~call.force
             THEN /\ call.outcome = "ValueError"
                  /\ _skills' = _skills
                  /\ gym_registry' = gym_registry
             ELSE /\ call.outcome # "ValueError"
                  /\ ~ExternalFailure(call) => call.outcome = "ok"
                  /\ GetCall(_skills', call.spec.skill_id).outcome = "ok"
                  /\ GetCall(_skills', call.spec.skill_id).spec = call.spec
                  /\ Len(_skills') = Len(_skills)]_vars

\* A forced register returned on a skill_id that was registered before another one, and
\* the registry no longer holds the spec first registered under it.
C8_Witness ==
    /\ last_call.op = "register" /\ last_call.force /\ last_call.outcome = "ok"
    /\ Len(_skills) = 2
    /\ _skills[1] = last_call.spec
    /\ last_call.spec.gym_id = "g2"
    /\ "g1" \in DOMAIN gym_registry
    /\ _skills[2].gym_id = "bad id"

\* C9 as stated: every key maps to one spec, whose skill_id is the key, and which is the
\* spec of the most recent register call for that key that returned normally.
C9_StoredIsLastSuccessful ==
    /\ \A i, j \in DOMAIN _skills : _skills[i].skill_id = _skills[j].skill_id => i = j
    /\ \A i \in DOMAIN _skills :
         /\ _skills[i].skill_id \in DOMAIN last_ok
         /\ last_ok[_skills[i].skill_id] = _skills[i]

\* C10 as stated: after a register call with external registration enabled returned
\* normally, the gym registry binds the spec's gym_id to the spec's two config classes.
C10_BoundToOwnFactories ==
    (last_call.op = "register" /\ last_call.register_gym /\ last_call.outcome = "ok") =>
        /\ last_call.spec.gym_id \in DOMAIN gym_registry
        /\ gym_registry[last_call.spec.gym_id] = GymKwargs(last_call.spec)

\* C11: a register call with force (past the duplicate check, external registration
\* enabled) first pops spec.gym_id from the gym registry and then registers it; an id
\* that was not bound makes the pop raise KeyError, which does not fail the call; the
\* registration then never meets an older binding, so a well-formed id ends bound to
\* the spec's own kwargs.  Without force no pop is made and no binding is removed.
C11_ForcePopsBeforeRegistering ==
    [][LET call == last_call'
           id == call.spec.gym_id
       IN  (call.op = "register" /\ call.register_gym /\ call.outcome # "ValueError") =>
             IF call.force
             THEN /\ Len(call.gym_calls) = 2
                  /\ call.gym_calls[1] =
                       GymCall("pop", id, IF id \in DOMAIN gym_registry
                                          THEN "none" ELSE "KeyError")
                  /\ call.gym_calls[2].op = "register"
                  /\ call.gym_calls[2].gym_id = id
                  /\ call.gym_calls[2].error # "exists"
                  /\ (call.outcome = "ok") = ~Malformed(id)
                  /\ ~Malformed(id) =>
                        /\ id \in DOMAIN gym_registry'
                        /\ gym_registry'[id] = GymKwargs(call.spec)
             ELSE /\ \A i \in DOMAIN call.gym_calls : call.gym_calls[i].op # "pop"
                  /\ DOMAIN gym_registry \subseteq DOMAIN gym_registry']_vars

\* A forced register returned where gym.register refuses bound ids: its pop removed a
\* binding to other config classes, and the id is now bound to the spec's own.
C11_Witness ==
    /\ gym_on_duplicate = "raise"
    /\ last_call.op = "register" /\ last_call.force /\ last_call.register_gym
    /\ last_call.outcome = "ok"
    /\ last_call.gym_calls[1] = GymCall("pop", last_call.spec.gym_id, "none")
    /\ gym_registry[last_call.spec.gym_id] = GymKwargs(last_call.spec)
    /\ \E i \in DOMAIN _skills :
         /\ _skills[i].gym_id = last_call.spec.gym_id
         /\ GymKwargs(_skills[i]) # GymKwargs(last_call.spec)

\* C12: when gym.register raises an error saying that the id exists, register returns
\* normally; when it raises any other error, register ends with that error
\* (GymRegistrationError, the spec's ExternalRegistrationConflict).
C12_ExistsSwallowedOthersPropagated ==
    (last_call.op = "register" /\ last_call.register_gym
                               /\ last_call.outcome # "ValueError") =>
        LET r == last_call.gym_calls[Len(last_call.gym_calls)]
        IN  /\ r.op = "register"
            /\ r.error \in {"none", "exists"} => last_call.outcome = "ok"
            /\ r.error \notin {"none", "exists"} =>
                  last_call.outcome = "GymRegistrationError"

\* gym.register refused an id that was bound, and register returned normally.
C12_Witness ==
    /\ last_call.op = "register" /\ last_call.register_gym
    /\ last_call.outcome = "ok"
    /\ last_call.gym_calls[Len(last_call.gym_calls)].error = "exists"

\* C13: get of an id that is not registered ends with KeyError (the spec's
\* UnknownSkill) whose message lists exactly the ids registered at that moment; get of
\* a registered id returns the spec stored under it; neither changes the registry or
\* the gym registry.
C13_GetUnknownListsKnownIds ==
    [][LET call == last_call'
       IN  call.op = "get" =>
             /\ _skills' = _skills
             /\ gym_registry' = gym_registry
             /\ IF \E i \in DOMAIN _skills : _skills[i].skill_id = call.skill_id
                THEN /\ call.outcome = "ok"
                     /\ call.spec.skill_id = call.skill_id
                     /\ \E i \in DOMAIN _skills : _skills[i] = call.spec
                ELSE /\ call.outcome = "KeyError"
                     /\ call.known = {_skills[i].skill_id : i \in DOMAIN _skills}]_vars

\* get("missing") failed on a registry holding two skills and named both.
C13_Witness ==
    /\ last_call.op = "get" /\ last_call.skill_id = "missing"
    /\ last_call.outcome = "KeyError"
    /\ last_call.known = {"a", "b"}
    /\ Len(_skills) = 2

\* The place of a skill id in the order of first registration.
FirstPlace(skill_id) ==
    CHOOSE i \in DOMAIN first_registered : first_registered[i] = skill_id

\* C14: the list returned by list(robot=r) holds each stored spec whose robot is r (each
\* stored spec when r is None) once and nothing else, in the order in which their
\* skill ids were first taken into the registry by a register call.
C14_ListFiltersInRegistrationOrder ==
    last_call.op = "list" =>
        LET r == last_call.robot
            items == Contents(returned[1], _skills)
        IN  /\ returned[1].robot = r
            /\ \A i \in DOMAIN items :
                 /\ \E j \in DOMAIN _skills : _skills[j] = items[i]
                 /\ r = None \/ items[i].robot = r
            /\ \A j \in DOMAIN _skills :
                 (r = None \/ _skills[j].robot = r) =>
                     \E i \in DOMAIN items : items[i] = _skills[j]
            /\ \A i, k \in DOMAIN items :
                 i < k => FirstPlace(items[i].skill_id) < FirstPlace(items[k].skill_id)

\* list(robot="go2") returned both stored specs, "b" (registered first) before "a",
\* where "a" was first registered for the other robot and replaced with force.
C14_Witness ==
    /\ last_call.op = "list" /\ last_call.robot = "go2"
    /\ Len(returned[1].items) = 2
    /\ returned[1].items[1].skill_id = "b"
    /\ returned[1].items[2].skill_id = "a"
    /\ "a" \in DOMAIN last_ok /\ last_ok["a"].robot = "go2"
    /\ first_registered = <<"b", "a">>

\* C15: what the holder of a returned list reads from it is the same before and after
\* any later register call, forced replacements included.
C15_ListIsSnapshot ==
    [][(returned # <<>> /\ last_call'.op = "register") =>
          /\ returned' # <<>>
          /\ Contents(returned'[1], _skills') = Contents(returned[1], _skills)]_vars

\* A forced register replaced a spec after list returned: the list still holds the
\* replaced spec, which the registry no longer does.
C15_Witness ==
    /\ returned # <<>>
    /\ last_call.op = "register" /\ last_call.force /\ last_call.outcome = "ok"
    /\ Len(returned[1].items) = 1
    /\ returned[1].items[1].skill_id = last_call.spec.skill_id
    /\ returned[1].items[1] # last_call.spec
    /\ \A j \in DOMAIN _skills : _skills[j] # returned[1].items[1]

\* The learn calls made so far, in order.
LearnCalls == SelectSeq(events, LAMBDA e : e.op = "learn")

\* C16: the spec handed to export has the combined skill id of the command line when
\* one was given and otherwise robot, "multi" and the time of the export; its robot is
\* the robot of every stage; its gym id and its two config classes are those the
\* registry holds for the last skill of the command line; its tags are "multi",
\* "sequential"; its metadata.skills are the skill ids of the stages in the order in
\* which the stages were trained.
C16_MergedSpecFromLastStage ==
    \A i \in DOMAIN exported :
        LET s == exported[i].spec
            n == Len(args_cli.skills)
            last == Lookup(_skills, args_cli.skills[n])
        IN  /\ IF ~IsNone(args_cli.combined_skill_id)
               THEN s.skill_id = [given |-> Given(args_cli.combined_skill_id)]
               ELSE s.skill_id = [robot |-> s.robot, multi |-> "multi", stamp |-> clock]
            /\ \A k \in 1..n : Lookup(_skills, args_cli.skills[k]).robot = s.robot
            /\ s.gym_id = last.gym_id
            /\ s.env_cfg_cls = last.env_cfg_cls
            /\ s.runner_cfg_cls = last.runner_cfg_cls
            /\ s.tags = <<"multi", "sequential">>
            /\ DOMAIN s.metadata = {"skills"}
            /\ Len(LearnCalls) = n
            /\ s.metadata.skills =
                 [j \in 1..n |-> skill_specs[LearnCalls[j].stage].skill_id]

\* A curriculum of trot_forward then turn_left was exported without a combined skill
\* id: the merged spec points at turn_left's task.
C16_Witness ==
    /\ exported # <<>>
    /\ exported[1].completed
    /\ args_cli.skills = <<"go2/velocity/trot_forward", "go2/velocity/turn_left">>
    /\ IsNone(args_cli.combined_skill_id)
    /\ exported[1].spec.gym_id = "go2_skill_turn_left"
    /\ exported[1].spec.skill_id.robot = "go2"

\* The directory a path names to the operating system: empty and "." components are
\* skipped, ".." steps to the parent.
Place(path) == Resolve(SelectSeq(path, LAMBDA c : c \notin {"", "."}))

\* The directories root/s1, root/s1/s2, ..., root/s1/.../sn of a skill id.
Descent(skill_id) ==
    LET segs == Split(skill_id)
    IN  [k \in 1..Len(segs) |-> Place(root_dir \o SubSeq(segs, 1, k))]

\* The directory root/s1/.../sn of a skill id.
Target(skill_id) == Descent(skill_id)[Len(Descent(skill_id))]

\* The names of the files directly in a directory.
FilesIn(f, dir) ==
    {q[Len(q)] : q \in {q \in DOMAIN f.files : SubSeq(q, 1, Len(q) - 1) = dir}}

ConfigFiles == {"agent.yaml", "env.yaml", "agent.pkl", "env.pkl"}

\* C17: an export call gets past making its directory unless a regular file is in the
\* way, whichever of the directories exist already; when it returns, every directory
\* root/s1, ..., root/s1/.../sn exists, the artifact, the configs and metadata.json
\* of this call are in root/s1/.../sn, no file elsewhere was touched, and the path
\* returned is root/s1/.../sn/{policy_filename}.
C17_ExportDescendsPerSegment ==
    \A i \in DOMAIN export_log :
        LET e == export_log[i]
            dirs == Descent(e.spec.skill_id)
            target == Target(e.spec.skill_id)
        IN  /\ (\A k \in DOMAIN dirs : dirs[k] \notin DOMAIN e.fs_before.files) =>
                  /\ e.skill_dir # <<>>
                  /\ \A k \in DOMAIN dirs : dirs[k] \in e.fs_after.dirs
            /\ e.outcome = "returned" =>
                  /\ \A k \in DOMAIN dirs : dirs[k] \in e.fs_after.dirs
                  /\ Place(e.result) = Append(target, e.policy_filename)
                  /\ \A name \in ConfigFiles \cup {e.policy_filename, "metadata.json"} :
                       /\ Append(target, name) \in DOMAIN e.fs_after.files
                       /\ e.fs_after.files[Append(target, name)].n = i
                  /\ \A q \in DOMAIN e.fs_before.files :
                       /\ q \in DOMAIN e.fs_after.files
                       /\ SubSeq(q, 1, Len(q) - 1) # target =>
                             e.fs_after.files[q] = e.fs_before.files[q]
                  /\ e.fs_before.dirs \subseteq e.fs_after.dirs

\* "a/b" was exported after "a": library/a was there, library/a/b was made, and the
\* artifact of the second call is library/a/b/policy.pt.
C17_Witness ==
    /\ Len(export_log) = 2
    /\ export_log[1].outcome = "returned" /\ export_log[1].spec.skill_id = <<"a">>
    /\ export_log[2].outcome = "returned"
    /\ export_log[2].spec.skill_id = <<"a", "/", "b">>
    /\ <<"library", "a", "b">> \notin export_log[2].fs_before.dirs
    /\ <<"library", "a">> \in export_log[2].fs_before.dirs
    /\ export_log[2].result = <<"library", "a", "b", "policy.pt">>
    /\ <<"library", "a", "b", "policy.pt">> \in DOMAIN fs.files

\* The metadata document an export that returned left on disk.
MetadataOf(e) == e.fs_after.files[Append(Target(e.spec.skill_id), "metadata.json")].of[1]

\* C18 as stated: an export without extras that returned leaves in its directory
\* exactly the artifact, the four config files and metadata.json, and the keys of the
\* metadata are skill_id, robot, gym_id (the spec's task_id), description, tags,
\* metadata, exported_at, policy, log_dir, and iterations when the runner has a
\* current iteration; policy is the artifact's file name and log_dir the string form.
C18_ExactFilesAndKeys ==
    \A i \in DOMAIN export_log :
        LET e == export_log[i]
        IN  (e.outcome = "returned" /\ IsNone(e.extras)) =>
              /\ FilesIn(e.fs_after, Target(e.spec.skill_id)) =
                    ConfigFiles \cup {e.policy_filename, "metadata.json"}
              /\ DOMAIN MetadataOf(e) =
                    {"skill_id", "robot", "gym_id", "description", "tags", "metadata",
                     "exported_at", "policy", "log_dir"}
                    \cup (IF IsNone(e.runner.current_learning_iteration)
                          THEN {} ELSE {"iterations"})
              /\ MetadataOf(e).policy = e.policy_filename
              /\ MetadataOf(e).log_dir = "logs/run"

\* C19 as stated: the metadata has no iterations key when the runner has no current
\* iteration, and iterations is that integer when it has one.
C19_IterationsAbsentWhenUnavailable ==
    \A i \in DOMAIN export_log :
        LET e == export_log[i]
        IN  (e.outcome = "returned" /\ IsNone(e.extras)) =>
              IF IsNone(e.runner.current_learning_iteration)
              THEN "iterations" \notin DOMAIN MetadataOf(e)
              ELSE /\ "iterations" \in DOMAIN MetadataOf(e)
                   /\ MetadataOf(e).iterations = e.runner.current_learning_iteration

\* Calls i and i+1 both returned and were given the same skill id, the same artifact
\* file name and extras with the same keys.
SameExportTwice(i) ==
    /\ i \in DOMAIN export_log /\ i + 1 \in DOMAIN export_log
    /\ export_log[i].outcome = "returned" /\ export_log[i + 1].outcome = "returned"
    /\ export_log[i].spec.skill_id = export_log[i + 1].spec.skill_id
    /\ export_log[i].policy_filename = export_log[i + 1].policy_filename
    /\ IsNone(export_log[i].extras) = IsNone(export_log[i + 1].extras)
    /\ ~IsNone(export_log[i].extras) =>
          DOMAIN export_log[i].extras[1] = DOMAIN export_log[i + 1].extras[1]

\* The second of two such exports leaves in the directory the files the first left,
\* each written by the second.
SameFilesOverwritten(i) ==
    LET first == export_log[i]
        second == export_log[i + 1]
        dir == Target(second.spec.skill_id)
    IN  /\ FilesIn(second.fs_after, dir) = FilesIn(first.fs_after, dir)
        /\ \A name \in ConfigFiles \cup {second.policy_filename, "metadata.json"} :
             /\ name \in FilesIn(second.fs_after, dir)
             /\ second.fs_after.files[Append(dir, name)].n = i + 1

\* C20 as stated: the second of two such exports leaves the same files, each
\* overwritten, and its exported_at is the timestamp the second export read.
C20_Original_SecondTimestamp ==
    \A i \in DOMAIN export_log :
        SameExportTwice(i) =>
            /\ SameFilesOverwritten(i)
            /\ MetadataOf(export_log[i + 1]).exported_at = IsoZ(export_log[i + 1].now)

\* C20, amended: the second of two such exports leaves the same files, each
\* overwritten, and its exported_at is the timestamp the second export read unless
\* the extras carry an exported_at key, in which case it is the extras' value.
C20_SecondExportOverwrites ==
    \A i \in DOMAIN export_log :
        SameExportTwice(i) =>
            LET second == export_log[i + 1]
            IN  /\ SameFilesOverwritten(i)
                /\ MetadataOf(second).exported_at =
                      IF ~IsNone(second.extras) /\ "exported_at" \in DOMAIN second.extras[1]
                      THEN second.extras[1].exported_at
                      ELSE IsoZ(second.now)

\* "a/b" was exported twice without extras: the directory holds six files, all of the
\* second export, and exported_at is the second export's later timestamp.
C20_Witness ==
    /\ SameExportTwice(1)
    /\ export_log[1].spec.skill_id = <<"a", "/", "b">>
    /\ IsNone(export_log[2].extras)
    /\ Cardinality(FilesIn(fs, <<"library", "a", "b">>)) = 6
    /\ MetadataOf(export_log[1]).exported_at = IsoZ(1)
    /\ fs.files[<<"library", "a", "b", "metadata.json">>].of[1].exported_at = IsoZ(2)

\* C21: in the metadata an export that returned wrote, every key of extras has the
\* extras' value, and every other key has the value taken from the spec (skill_id,
\* robot, gym_id, description, tags, metadata) or from the export (exported_at, policy,
\* log_dir, iterations); there is no further key.
C21_ExtrasMergedLast ==
    \A i \in DOMAIN export_log :
        LET e == export_log[i]
            md == MetadataOf(e)
            ex == IF IsNone(e.extras) THEN <<>> ELSE e.extras[1]
            own(k) == k \notin DOMAIN ex
        IN  e.outcome = "returned" =>
              /\ DOMAIN md = (DOMAIN ex) \cup
                    {"skill_id", "robot", "gym_id", "description", "tags", "metadata",
                     "exported_at", "policy", "log_dir", "iterations"}
              /\ \A k \in DOMAIN ex : md[k] = ex[k]
              /\ own("skill_id") => md.skill_id = e.spec.skill_id
              /\ own("robot") => md.robot = e.spec.robot
              /\ own("gym_id") => md.gym_id = e.spec.gym_id
              /\ own("description") => md.description = e.spec.description
              /\ own("tags") => md.tags = e.spec.tags
              /\ own("metadata") => md.metadata = e.spec.metadata
              /\ own("exported_at") => md.exported_at = IsoZ(e.now)
              /\ own("policy") => md.policy = e.policy_filename
              /\ own("log_dir") => md.log_dir = "logs/run"
              /\ own("iterations") => md.iterations = e.runner.current_learning_iteration

\* An export with extras holding exported_at and note returned: the metadata has the
\* caller's exported_at, not the time of the export, and the caller's note.
C21_Witness ==
    /\ Len(export_log) = 1
    /\ export_log[1].outcome = "returned"
    /\ ~IsNone(export_log[1].extras)
    /\ MetadataOf(export_log[1]).exported_at = export_log[1].extras[1].exported_at
    /\ MetadataOf(export_log[1]).exported_at # IsoZ(export_log[1].now)
    /\ MetadataOf(export_log[1]).note = "x"
    /\ MetadataOf(export_log[1]).policy = "best.pt"

\* C22 as stated: once a stage has failed, the exception in flight stays the stage's
\* through the cleanup, up to the caller, also when the cleanup itself fails.
C22_CleanupKeepsOriginalFailure ==
    [][exc # "none" => exc' = exc]_vars

\* C23: a run that is not in list mode and has fewer than two --skill entries never
\* resolves a skill, makes no task, no runner and no learn call, exports nothing, and
\* once past the argument check it has ended with parser.error's SystemExit.
C23_TooFewStagesRejectedFirst ==
    (~args_cli.list_skills /\ Len(args_cli.skills) < 2) =>
        /\ skill_specs = <<>>
        /\ events = <<>>
        /\ env = "none"
        /\ runner = NoRunner
        /\ exported = <<>>
        /\ pc \in {"start", "launched", "exit"}
        /\ pc = "exit" => exc = "SystemExit"

\* A run with one registered --skill entry ended in parser.error.
C23_Witness ==
    /\ pc = "exit" /\ exc = "SystemExit"
    /\ ~args_cli.list_skills
    /\ args_cli.skills = <<"go2/velocity/trot_forward">>

\* C24: from the moment a stage has failed, no file on disk is removed and none is
\* written: the params and checkpoints of the stages before it stay as they are.
C24_AbortLeavesArtifacts ==
    [][Failed => files' = files]_vars

\* Stage 2 of a curriculum failed in learn and main ended: the checkpoint and the four
\* params files of stage 1 are on disk.
C24_Witness ==
    /\ pc = "exit" /\ exc = "LearnError" /\ idx = 2
    /\ ~IsNone(last_checkpoint)
    /\ last_checkpoint[1] \in files
    /\ \A i \in 1..4 : ParamsPath(last_checkpoint[1].dir, ParamsFiles[i]) \in files
    /\ last_checkpoint[1].dir # log_dir

\* C25: find_by_gym_id(t) returns the stored spec with gym id t whose skill id was
\* registered first among the stored specs with gym id t, ends with KeyError (the
\* spec's UnknownSkill) when no stored spec has gym id t, and changes neither the
\* registry nor the gym registry.
C25_FindByGymIdFirstMatch ==
    [][LET call == last_call'
       IN  call.op = "find_by_gym_id" =>
             /\ _skills' = _skills
             /\ gym_registry' = gym_registry
             /\ IF \E i \in DOMAIN _skills : _skills[i].gym_id = call.gym_id
                THEN /\ call.outcome = "ok"
                     /\ call.spec.gym_id = call.gym_id
                     /\ \E i \in DOMAIN _skills : _skills[i] = call.spec
                     /\ \A j \in DOMAIN _skills :
                          _skills[j].gym_id = call.gym_id =>
                              FirstPlace(call.spec.skill_id) <= FirstPlace(_skills[j].skill_id)
                ELSE call.outcome = "KeyError"]_vars

\* Two stored specs share gym id g1 and find_by_gym_id("g1") returned the one
\* registered first.
C25_Witness ==
    /\ last_call.op = "find_by_gym_id" /\ last_call.gym_id = "g1"
    /\ last_call.outcome = "ok"
    /\ Len(_skills) = 2
    /\ _skills[1].gym_id = "g1" /\ _skills[2].gym_id = "g1"
    /\ last_call.spec = _skills[1]
    /\ first_registered = <<"b", "a">>

\* C26: when --list_skills is given, train_multiskill.main and train_skill.main resolve
\* no skill, make no task, create no runner, call neither load nor learn and export
\* nothing; the only thing they do besides launching and closing the simulator is to
\* print the catalog, once, and they return without an exception.
C26_ListModeBypassesTraining ==
    args_cli.list_skills =>
        /\ pc \in {"start", "launched", "skill_start", "exit"}
        /\ skill_specs = <<>>
        /\ env = "none"
        /\ runner = NoRunner
        /\ exported = <<>>
        /\ exc = "none"
        /\ \A i \in DOMAIN events : events[i].op = "list_skills"
        /\ pc = "exit" => Len(events) = 1

\* train_multiskill --list_skills with a non-empty --skill list has printed the catalog
\* and returned.
C26_Witness ==
    /\ args_cli.list_skills
    /\ Len(args_cli.skills) = 2
    /\ pc = "exit"
    /\ simulation_app = "closed"
    /\ events = <<[stage |-> 0, op |-> "list_skills", arg |-> Len(_skills)]>>

\* train_skill --list_skills --robot go2 with a non-empty --skill list has printed the
\* two go2 skills and returned without launching the simulator.
C26_WitnessTrainSkill ==
    /\ args_cli.list_skills
    /\ Len(args_cli.skills) = 2
    /\ pc = "exit"
    /\ simulation_app = "unlaunched"
    /\ events = <<[stage |-> 0, op |-> "list_skills", arg |-> 2]>>

\* The spec the registry holds for the k-th --skill value.
Supplied(k) == GetCall(_skills, args_cli.skills[k]).spec

\* The warm start of a stage failed because the recorded checkpoint path names no file.
MissingWarmStart ==
    /\ exc = "LoadError"
    /\ ~IsNone(last_checkpoint)
    /\ last_checkpoint[1] \notin files

\* Stages are started in the order of the --skill list and each gets at most one learn
\* call, with its resolved budget; the export is reached after one learn call per stage.
C27_StagesInOrder ==
    /\ \A k \in Stages : \A j \in Calls(k, "make") :
         /\ events[j].arg = Supplied(k).gym_id
         /\ \A k2 \in 1..(k - 1) : \E j2 \in Calls(k2, "make") : j2 < j
    /\ \A k \in Stages :
         /\ Cardinality(Calls(k, "learn")) <= 1
         /\ \A j \in Calls(k, "learn") :
              events[j].arg = ResolveMaxIterations(Supplied(k), args_cli)
    /\ exported # <<>> =>
         /\ Len(LearnCalls) = Len(args_cli.skills)
         /\ \A k \in Stages : Cardinality(Calls(k, "learn")) = 1

C28_CheckpointRecordedAfterLearn ==
    [][/\ last_checkpoint' # last_checkpoint =>
            /\ exc = "none" /\ exc' = "none"
            /\ events[Len(events)] = [stage |-> idx, op |-> "learn_returned", arg |-> None]
            /\ last_checkpoint' =
                 Some(CheckpointPath(log_dir, runner.current_learning_iteration))
       /\ (pc # "finally_env" /\ pc' = "finally_env" /\ exc' = "none") =>
            last_checkpoint' =
                 Some(CheckpointPath(log_dir', runner'.current_learning_iteration))
       /\ (exc # "none" \/ exc' # "none") => last_checkpoint' = last_checkpoint]_vars

\* Stage 2 was warm-started at iteration 4 and its learn call raised: the path recorded
\* by stage 1 is still the recorded one.
C28_Witness ==
    /\ idx = 2
    /\ exc = "LearnError"
    /\ Calls(2, "learn") # {}
    /\ runner.current_learning_iteration = 4
    /\ last_checkpoint = Some(CheckpointPath(
                              [experiment_name |-> "H1ForwardWalkSkillRunnerCfg",
                               stamp |-> 1], 4))

\* C29: in every run mode, --use_wandb included, the path recorded as last_checkpoint
\* names a checkpoint file the stage's training has written, and so does every path a
\* later stage passes to runner.load.
C29_WarmStartSourceWasWritten ==
    /\ ~IsNone(last_checkpoint) => last_checkpoint[1] \in files
    /\ \A i \in DOMAIN events : events[i].op = "load" => events[i].arg \in files

\* C30: a register call that ends with the error the external registration raised
\* leaves the registry as it was before the call: a new skill_id is not stored, and
\* with force a stored skill_id keeps its spec.
C30_FailedRegisterLeavesRegistry ==
    [][(last_call'.op = "register" /\ last_call'.outcome = "GymRegistrationError") =>
          _skills' = _skills]_vars

\* The gym ids of the stored specs.
StoredGymIds(skills) == {skills[i].gym_id : i \in DOMAIN skills}

\* C31: register calls with external registration enabled keep the gym ids bound in the
\* gym registry equal to the gym ids of the stored specs; a forced re-registration under
\* another gym id leaves no binding for the replaced spec's gym id.
C31_BoundIdsAreStoredIds ==
    [][(/\ DOMAIN gym_registry = StoredGymIds(_skills)
        /\ last_call'.op = "register"
        /\ last_call'.register_gym) =>
          DOMAIN gym_registry' = StoredGymIds(_skills')]_vars

\* C32: a register call with force on a skill_id already stored puts its spec at the
\* place of the spec it replaces and leaves every other place as it was, and list()
\* returns the stored specs place by place, their skill ids in the order of first
\* registration.
C32_ForcedReplacementKeepsPlace ==
    [][LET call == last_call'
       IN  /\ (/\ call.op = "register" /\ call.force
               /\ \E i \in DOMAIN _skills : _skills[i].skill_id = call.spec.skill_id) =>
                  /\ Len(_skills') = Len(_skills)
                  /\ \A i \in DOMAIN _skills :
                       _skills'[i] = IF _skills[i].skill_id = call.spec.skill_id
                                     THEN call.spec ELSE _skills[i]
           /\ (call.op = "list" /\ call.robot = None) =>
                  /\ returned'[1].items = _skills
                  /\ Len(_skills) = Len(first_registered)
                  /\ \A i \in DOMAIN _skills : _skills[i].skill_id = first_registered[i]]_vars

\* "a" was registered before "b"; the last call registered "a" again, with force, for
\* robot go2, and its spec stands first.
C32_Witness ==
    /\ last_call.op = "register" /\ last_call.force
    /\ last_call.spec.skill_id = "a" /\ last_call.spec.robot = "go2"
    /\ first_registered = <<"a", "b">>
    /\ Len(_skills) = 2
    /\ _skills[1] = last_call.spec
    /\ _skills[2].skill_id = "b"

\* C33: when train_multiskill.main calls the merged export, the simulation application
\* is still running and the last stage's task is still open.
C33_ExportBeforeTeardown ==
    \A i \in DOMAIN exported :
        /\ exported[i].app = "running"
        /\ exported[i].env = "open"

\* C34: simulation_app.close() is never called twice, and when train_multiskill.main
\* has ended, by returning or by raising, the launched application has been closed by
\* exactly one call.
C34_AppClosedOnceOnEveryPath ==
    /\ app_close_calls <= 1
    /\ pc = "exit" => (simulation_app = "closed" /\ app_close_calls = 1)

\* With the file system `f`, metadata.json in the directory of export call `e` holds a
\* document whose exported_at is the timestamp that call read.
CarriesTimestampOf(e, f) ==
    /\ e.now > 0
    /\ LET path == Append(Place(e.skill_dir), "metadata.json")
       IN  /\ path \in DOMAIN f.files
           /\ f.files[path].kind = "json"
           /\ ~IsNone(f.files[path].of)
           /\ f.files[path].of[1].exported_at = IsoZ(e.now)

\* With the file system `f`, the artifact and the four config files in the directory of
\* export call `e` are there and were written by call number n.
FilesWrittenBy(e, f, n) ==
    \A name \in ConfigFiles \cup {e.policy_filename} :
        LET path == Append(Place(e.skill_dir), name)
        IN  path \in DOMAIN f.files /\ f.files[path].n = n

\* C35: at every step of an export call, interrupted or not, and when the call has
\* ended, metadata.json carrying the exported_at that call read implies that the
\* artifact and the four config files in the directory were written by that call.
\* (An ended call is looked at when it is the latest one: its record never changes.)
C35_MetadataWrittenLast ==
    /\ export.pc # "idle" =>
          (CarriesTimestampOf(export, fs) => FilesWrittenBy(export, fs, export.n))
    /\ export_log # <<>> =>
          LET e == export_log[Len(export_log)]
          IN  CarriesTimestampOf(e, e.fs_after) =>
                  FilesWrittenBy(e, e.fs_after, Len(export_log))

\* A second export into the directory of the first returned: metadata.json carries its
\* timestamp and the five files are its own.
C35_Witness ==
    /\ Len(export_log) = 2
    /\ export_log[1].outcome = "returned" /\ export_log[2].outcome = "returned"
    /\ Target(export_log[1].spec.skill_id) = Target(export_log[2].spec.skill_id)
    /\ export_log[1].policy_filename = export_log[2].policy_filename
    /\ CarriesTimestampOf(export_log[2], fs)
    /\ FilesWrittenBy(export_log[2], fs, 2)

\* train_skill: the i-th export is skill i's, made with its task open and the
\* simulator running; a skill whose learn call returned is at its export or past it,
\* and its task is closed right after; without resume nothing is loaded; once a skill
\* has failed, no later skill has been started and no later skill has been exported.
C36_ExportsSoFar ==
    /\ \A i \in DOMAIN exported :
         /\ exported[i].runner = i
         /\ exported[i].spec = skill_specs[i]
         /\ exported[i].env = "open"
         /\ exported[i].app = "running"
         /\ Calls(i, "learn_returned") # {}
    /\ \A k \in Stages : Calls(k, "learn_returned") # {} =>
         \/ idx = k /\ pc = "skill_export"
         \/ Len(exported) >= k
    /\ \A k \in Stages : \A j \in Calls(k, "learn_returned") : \A c \in Calls(k, "close") :
         c = j + 1
    /\ ~args_cli.resume => \A i \in DOMAIN events : events[i].op # "load"
    /\ exc # "none" =>
         /\ \A i \in DOMAIN events : events[i].stage <= idx
         /\ Len(exported) <= idx
         /\ Len(skill_specs) <= idx

Placed == {i \in DOMAIN export_log : export_log[i].skill_dir # <<>>}

\* C37: export calls for specs with different skill ids get different directories, and
\* every directory handed out lies under the library root.
C37_SkillDirInjectiveUnderRoot ==
    /\ \A i, j \in Placed :
         export_log[i].spec.skill_id # export_log[j].spec.skill_id =>
             Place(export_log[i].skill_dir) # Place(export_log[j].skill_dir)
    /\ \A i \in Placed :
         LET dir == Place(export_log[i].skill_dir)
         IN  /\ Len(dir) > Len(root_dir)
             /\ SubSeq(dir, 1, Len(root_dir)) = root_dir

====
